---- MODULE Spec2Model ----
(***************************************************************************)
(* Billing-and-state reconciliation of outbound call campaigns.            *)
(*                                                                         *)
(* The model covers the poll-batch-status function (poll loop,             *)
(* updateCampaignStatus, handleMinutesRefund), the eleven-labs-webhook     *)
(* function and the cleanup-minutes function, all writing the same tables: *)
(* profiles, minutes_transactions, conversations, transcripts, recipients, *)
(* batch_calls and campaigns.  Every `await supabase...` of                *)
(* handleMinutesRefund and of the cleanup loop is one step of its process, *)
(* so that the interleavings of independent function instances are the     *)
(* interleavings of their storage round trips.                             *)
(***************************************************************************)
EXTENDS Integers, Sequences, FiniteSets, TLC

(***************************************************************************)
(* Bounds of the model.                                                    *)
(***************************************************************************)
\* calls scheduled per batch in the small, concurrent specification
MaxScheduled == 1
\* longest call duration (seconds) drawn as an input
MaxDuration == 130
\* number of calls of the campaign in the settlement specification
MaxCalls == 10
\* non-terminal poll iterations (pending status or fetch error) the provider
\* gives one poller before it answers with a terminal status
MaxPending == 1
\* requests the cleanup-minutes function receives
MaxSweeps == 1
\* recipients of the batch whose snapshots hold several recipients
MaxSiblings == 2

(***************************************************************************)
(* Program constants.                                                      *)
(***************************************************************************)
\* estimatedMinutes = contacts.length * 2 ; refundMinutes = failedCalls * 2
MinutesPerCall == 2
\* const maxPolls = 100
maxPolls == 100
\* cutoffTime = Date.now() - 4 hours
GraceHours == 4

(***************************************************************************)
(* Values.                                                                 *)
(***************************************************************************)
\* JavaScript null / undefined, and SQL NULL, of a string-valued field
NULL == "<null>"
\* a table slot holding no row
NoRow == [absent |-> TRUE]
\* a nullable number: <<>> is null, <<n>> is n
NoNumber == <<>>
Num(n) == <<n>>
\* x || 0
OrZero(x) == IF x = NoNumber THEN 0 ELSE x[1]

Users == {"u1"}
Batches == {"b1", "b2"}
Campaigns == {"c1", "c2"}
Pollers == {"p1", "p2"}

\* String.prototype.toLowerCase over the status strings of the model
LowerTable ==
  [s \in {"Done", "DONE", "Completed", "COMPLETED", "Failed", "Success",
          "FAILED", "SUCCESS", "Successful", "SUCCESSFUL", "Error", "ERROR",
          "Cancelled", "CANCELLED", "In_Progress"} |->
     CASE s = "Done" -> "done"
       [] s = "DONE" -> "done"
       [] s = "Completed" -> "completed"
       [] s = "COMPLETED" -> "completed"
       [] s = "Failed" -> "failed"
       [] s = "Success" -> "success"
       [] s = "FAILED" -> "failed"
       [] s = "SUCCESS" -> "success"
       [] s = "Successful" -> "successful"
       [] s = "SUCCESSFUL" -> "successful"
       [] s = "Error" -> "error"
       [] s = "ERROR" -> "error"
       [] s = "Cancelled" -> "cancelled"
       [] s = "CANCELLED" -> "cancelled"
       [] s = "In_Progress" -> "in_progress"]
ToLowerCase(s) == IF s \in DOMAIN LowerTable THEN LowerTable[s] ELSE s

Max(a, b) == IF a >= b THEN a ELSE b
\* Math.ceil(n / d) for n >= 0, d > 0
Ceil(n, d) == (n + d - 1) \div d

VARIABLES
  profiles,              \* profiles.available_minutes, per user
  minutes_transactions,  \* the ledger: a sequence of rows, in insertion order
  conversations,         \* conversations, keyed by conversation_id
  transcripts,           \* conversation ids holding a transcripts row
  recipients,            \* recipients: a sequence of rows
  batch_calls,           \* batch_calls, keyed by batch_id
  campaigns,             \* campaigns, keyed by id
  poll,                  \* per poll-batch-status request: position and locals
  sweep,                 \* the cleanup-minutes request: position and locals
  hist                   \* history of the run (read by the properties only)

vars == <<profiles, minutes_transactions, conversations, transcripts,
          recipients, batch_calls, campaigns, poll, sweep, hist>>

tables == <<profiles, minutes_transactions, conversations, transcripts,
            recipients, batch_calls, campaigns>>

(***************************************************************************)
(* Table helpers.                                                          *)
(***************************************************************************)
ConvIds == DOMAIN conversations

\* indices of the ledger rows of one type for (batch_id, user_id)
LedgerRows(batchId, userId, type) ==
  {i \in 1..Len(minutes_transactions) :
     /\ minutes_transactions[i].batch_id = batchId
     /\ minutes_transactions[i].user_id = userId
     /\ minutes_transactions[i].transaction_type = type}

RECURSIVE SumMinutes(_)
\* sum of the minutes of the ledger rows with the indices in S
SumMinutes(S) ==
  IF S = {} THEN 0
  ELSE LET i == CHOOSE x \in S : TRUE
       IN minutes_transactions[i].minutes + SumMinutes(S \ {i})

\* conversations.select(...).eq('campaign_id', campaignId): the ids selected
ConversationsOfCampaign(campaignId) ==
  {c \in ConvIds : conversations[c] # NoRow /\ conversations[c].campaign_id = campaignId}

(***************************************************************************)
(* handleMinutesRefund: the actualMinutesUsed reducer.                     *)
(***************************************************************************)
\* conv.status?.toLowerCase() === 'done' || ... === 'completed'
IsBillableStatus(status) ==
  status # NULL /\ (ToLowerCase(status) = "done" \/ ToLowerCase(status) = "completed")

\* a variant of the callback that rounds the duration down to whole minutes;
\* C7 must tell it from the callback
BillableMinutesRoundedDown(conv) ==
  IF IsBillableStatus(conv.status)
  THEN LET durationSeconds == OrZero(conv.call_duration_secs)
       IN IF durationSeconds <= 0 THEN 0 ELSE durationSeconds \div 60
  ELSE 0

\* what one conversation adds to the sum in the reducer's callback
BillableMinutes(conv) ==
  IF IsBillableStatus(conv.status)
  THEN LET durationSeconds == OrZero(conv.call_duration_secs)
       IN IF durationSeconds <= 0 THEN 0
          ELSE IF durationSeconds <= 60 THEN 1
          ELSE Ceil(durationSeconds, 60)
  ELSE 0

RECURSIVE ActualMinutesUsed(_, _)
\* conversationsData.reduce(..., 0) over the rows with ids in S of table convs
ActualMinutesUsed(convs, S) ==
  IF S = {} THEN 0
  ELSE LET c == CHOOSE x \in S : TRUE
       IN BillableMinutes(convs[c]) + ActualMinutesUsed(convs, S \ {c})

\* a variant that refunds the deduction whatever was used; C6 must tell it
\* from the subtraction
UnusedMinutesIgnoringUsage(originalMinutes, actualMinutesUsed) ==
  originalMinutes

\* refundMinutes = Math.max(0, originalMinutes - actualMinutesUsed)
UnusedMinutes(originalMinutes, actualMinutesUsed) ==
  Max(0, originalMinutes - actualMinutesUsed)

(***************************************************************************)
(* handleMinutesRefund, one step per storage round trip.  p is the         *)
(* poll-batch-status request that called it; err is the storage error of   *)
(* the round trip.  Every return of the function leads to AfterRefund.     *)
(***************************************************************************)
\* a variant that forgets isCompleted, so that the loop goes on after a
\* completed batch; C18 must tell it from the loop
AfterRefundResuming(pl) ==
  [pl EXCEPT !.pc = IF pl.isFailedCampaign THEN "done" ELSE "fetch",
             !.pollCount = IF pl.isFailedCampaign THEN @ ELSE @ + 1,
             !.isCompleted = FALSE,
             !.originalMinutes = 0, !.campaign_id = NULL,
             !.actualMinutesUsed = 0, !.refundMinutes = 0,
             !.newAvailableMinutes = 0]

\* a variant without the `break` of the failed branch; C19 must tell it from
\* the loop
AfterRefundContinuing(pl) ==
  [pl EXCEPT !.pc = "fetch", !.pollCount = @ + 1,
             !.originalMinutes = 0, !.campaign_id = NULL,
             !.actualMinutesUsed = 0, !.refundMinutes = 0,
             !.newAvailableMinutes = 0]

\* a variant that sets isCompleted for a failed batch too; C36 must tell it
\* from the loop
AfterRefundCompleted(pl) ==
  [pl EXCEPT !.pc = IF pl.isFailedCampaign THEN "done" ELSE "fetch",
             !.pollCount = IF pl.isFailedCampaign THEN @ ELSE @ + 1,
             !.isCompleted = TRUE,
             !.originalMinutes = 0, !.campaign_id = NULL,
             !.actualMinutesUsed = 0, !.refundMinutes = 0,
             !.newAvailableMinutes = 0]

\* the poll loop after handleMinutesRefund returned (its locals are gone):
\* `break` and the response for a failed batch, otherwise pollCount++ and
\* back to the loop condition
AfterRefund(pl) ==
  [pl EXCEPT !.pc = IF pl.isFailedCampaign THEN "done" ELSE "fetch",
             !.pollCount = IF pl.isFailedCampaign THEN @ ELSE @ + 1,
             !.originalMinutes = 0, !.campaign_id = NULL,
             !.actualMinutesUsed = 0, !.refundMinutes = 0,
             !.newAvailableMinutes = 0]

\* a variant in which a failed batch takes the usage branch too; C8 must tell
\* it from the test of the flag
NeverFullRefund(isFailedCampaign) == FALSE

\* if (isFailedCampaign) { refundMinutes = originalMinutes } else { ... }
FullRefund(isFailedCampaign) == isFailedCampaign

NoteReturn(p) ==
  [hist EXCEPT !.returned[poll[p].batchId] = @ + 1]

\* a variant that settles a batch without a deduction row as one call's
\* worth; C25 must tell it from the early return
RefundDeductionAssuming(p, err) ==
  /\ poll[p].pc = "refund_deduction"
  /\ LET found == LedgerRows(poll[p].batchId, poll[p].userId, "deduction")
         row == IF Cardinality(found) # 1
                THEN [minutes |-> MinutesPerCall, campaign_id |-> NULL]
                ELSE minutes_transactions[CHOOSE i \in found : TRUE]
     IN /\ poll' = [poll EXCEPT ![p] =
                      [@ EXCEPT !.originalMinutes = row.minutes,
                                !.campaign_id = row.campaign_id,
                                !.refundMinutes = row.minutes,
                                !.pc = "refund_profile"]]
        /\ hist' = [hist EXCEPT !.dbError = @ \/ err]
  /\ UNCHANGED <<tables, sweep>>

\* a variant that settles on the first of several deduction rows; C38 must
\* tell it from single()
RefundDeductionFirstRow(p, err) ==
  /\ poll[p].pc = "refund_deduction"
  /\ LET found == LedgerRows(poll[p].batchId, poll[p].userId, "deduction")
     IN IF err \/ found = {}
        THEN /\ poll' = [poll EXCEPT ![p] = AfterRefund(@)]
             /\ hist' = [NoteReturn(p) EXCEPT !.dbError = @ \/ err]
        ELSE LET row == minutes_transactions[CHOOSE i \in found :
                                               \A k \in found : i <= k]
                 pl == [poll[p] EXCEPT !.originalMinutes = row.minutes,
                                       !.campaign_id = row.campaign_id]
             IN /\ poll' = [poll EXCEPT ![p] =
                     IF FullRefund(pl.isFailedCampaign)
                     THEN [pl EXCEPT !.refundMinutes = row.minutes,
                                     !.pc = "refund_profile"]
                     ELSE [pl EXCEPT !.pc = "refund_conversations"]]
                /\ hist' = hist
  /\ UNCHANGED <<tables, sweep>>

\* .from('minutes_transactions').select(...).eq(...).single()
RefundDeduction(p, err) ==
  /\ poll[p].pc = "refund_deduction"
  /\ LET found == LedgerRows(poll[p].batchId, poll[p].userId, "deduction")
     IN IF err \/ Cardinality(found) # 1
        THEN /\ poll' = [poll EXCEPT ![p] = AfterRefund(@)]
             /\ hist' = [NoteReturn(p) EXCEPT !.dbError = @ \/ err]
        ELSE LET row == minutes_transactions[CHOOSE i \in found : TRUE]
                 pl == [poll[p] EXCEPT !.originalMinutes = row.minutes,
                                       !.campaign_id = row.campaign_id]
             IN IF FullRefund(pl.isFailedCampaign)
                THEN IF row.minutes > 0
                     THEN /\ poll' = [poll EXCEPT ![p] =
                                 [pl EXCEPT !.refundMinutes = row.minutes,
                                            !.pc = "refund_profile"]]
                          /\ hist' = hist
                     ELSE /\ poll' = [poll EXCEPT ![p] =
                                 AfterRefund([pl EXCEPT !.refundMinutes = row.minutes])]
                          /\ hist' = NoteReturn(p)
                ELSE /\ poll' = [poll EXCEPT ![p] =
                                 [pl EXCEPT !.pc = "refund_conversations"]]
                     /\ hist' = hist
  /\ UNCHANGED <<tables, sweep>>

\* a variant without the test refundMinutes > 0: a settlement that finds
\* nothing unused goes on to the profile and the ledger; C31 must tell it from
\* the test
RefundConversationsUntested(p, err) ==
  /\ poll[p].pc = "refund_conversations"
  /\ IF err
     THEN /\ poll' = [poll EXCEPT ![p] = AfterRefund(@)]
          /\ hist' = [NoteReturn(p) EXCEPT !.dbError = TRUE]
     ELSE LET used == ActualMinutesUsed(conversations,
                        ConversationsOfCampaign(poll[p].campaign_id))
              refund == UnusedMinutes(poll[p].originalMinutes, used)
          IN /\ poll' = [poll EXCEPT ![p] =
                  [@ EXCEPT !.actualMinutesUsed = used, !.refundMinutes = refund,
                            !.pc = "refund_profile"]]
             /\ hist' = [hist EXCEPT !.logged =
                  [originalMinutes |-> poll[p].originalMinutes,
                   actualMinutesUsed |-> used, refundMinutes |-> refund]]
  /\ UNCHANGED <<tables, sweep>>

\* .from('conversations').select('call_duration_secs, status').eq('campaign_id', ...)
RefundConversations(p, err) ==
  /\ poll[p].pc = "refund_conversations"
  /\ IF err
     THEN /\ poll' = [poll EXCEPT ![p] = AfterRefund(@)]
          /\ hist' = [NoteReturn(p) EXCEPT !.dbError = TRUE]
     ELSE LET used == ActualMinutesUsed(conversations,
                        ConversationsOfCampaign(poll[p].campaign_id))
              refund == UnusedMinutes(poll[p].originalMinutes, used)
              pl == [poll[p] EXCEPT !.actualMinutesUsed = used,
                                    !.refundMinutes = refund]
              \* console.log(`Original minutes: ..., Used minutes: ..., Refund: ...`)
              line == [originalMinutes |-> poll[p].originalMinutes,
                       actualMinutesUsed |-> used, refundMinutes |-> refund]
          IN IF refund > 0
             THEN /\ poll' = [poll EXCEPT ![p] = [pl EXCEPT !.pc = "refund_profile"]]
                  /\ hist' = [hist EXCEPT !.logged = line]
             ELSE /\ poll' = [poll EXCEPT ![p] = AfterRefund(pl)]
                  /\ hist' = [NoteReturn(p) EXCEPT !.logged = line]
  /\ UNCHANGED <<tables, sweep>>

\* .from('profiles').select('available_minutes').eq('id', userId).single()
RefundProfile(p, err) ==
  /\ poll[p].pc = "refund_profile"
  /\ IF err
     THEN /\ poll' = [poll EXCEPT ![p] = AfterRefund(@)]
          /\ hist' = [NoteReturn(p) EXCEPT !.dbError = TRUE]
     ELSE /\ poll' = [poll EXCEPT ![p] =
                 [@ EXCEPT !.newAvailableMinutes =
                               OrZero(profiles[poll[p].userId]) + poll[p].refundMinutes,
                           !.pc = "refund_update"]]
          /\ hist' = hist
  /\ UNCHANGED <<tables, sweep>>

\* .from('profiles').update({ available_minutes: newAvailableMinutes }).eq('id', userId)
RefundUpdate(p, err) ==
  /\ poll[p].pc = "refund_update"
  /\ IF err
     THEN /\ poll' = [poll EXCEPT ![p] = AfterRefund(@)]
          /\ hist' = [NoteReturn(p) EXCEPT !.dbError = TRUE]
          /\ profiles' = profiles
     ELSE /\ profiles' = [profiles EXCEPT ![poll[p].userId] =
                              Num(poll[p].newAvailableMinutes)]
          /\ poll' = [poll EXCEPT ![p] = [@ EXCEPT !.pc = "refund_insert"]]
          /\ hist' = [hist EXCEPT !.credited = @ + poll[p].refundMinutes]
  /\ UNCHANGED <<minutes_transactions, conversations, transcripts, recipients,
                 batch_calls, campaigns, sweep>>

\* .from('minutes_transactions').insert({ ..., transaction_type: 'refund', ... })
RefundInsert(p, err) ==
  /\ poll[p].pc = "refund_insert"
  /\ IF err
     THEN /\ minutes_transactions' = minutes_transactions
          /\ hist' = [NoteReturn(p) EXCEPT !.dbError = TRUE]
     ELSE /\ minutes_transactions' = Append(minutes_transactions,
                 [user_id |-> poll[p].userId,
                  campaign_id |-> poll[p].campaign_id,
                  batch_id |-> poll[p].batchId,
                  transaction_type |-> "refund",
                  minutes |-> poll[p].refundMinutes])
          /\ hist' = NoteReturn(p)
  /\ poll' = [poll EXCEPT ![p] = AfterRefund(@)]
  /\ UNCHANGED <<profiles, conversations, transcripts, recipients,
                 batch_calls, campaigns, sweep>>

(***************************************************************************)
(* Rows and ids.  The provider names the i-th recipient of batch b <<b,i>> *)
(* and gives its call the conversation id <<b,i>>; <<>> is a null id.      *)
(***************************************************************************)
NoId == <<>>
RecipientsOfBatch(b) == {<<b, i>> : i \in 1..batch_calls[b].total_calls_scheduled}

\* rows of recipients matching .eq('elevenlabs_recipient_id', rid)
RecipientRows(recs, rid) ==
  {j \in 1..Len(recs) : recs[j].elevenlabs_recipient_id = rid}
\* ... and .eq('elevenlabs_batch_id', batchId)
RecipientRowsOfBatch(recs, rid, batchId) ==
  {j \in RecipientRows(recs, rid) : recs[j].elevenlabs_batch_id = batchId}

(***************************************************************************)
(* eleven-labs-webhook, post_call_transcription.  ev is the event's data;  *)
(* errs names the storage calls that return an error.                      *)
(***************************************************************************)
\* a variant of the upsert that adds the event's duration to the stored one;
\* C10 must tell it from the upsert
WebhookConversationRowAdding(old, ev, userId) ==
  [status |-> ev.status,
   user_id |-> userId,
   call_duration_secs |->
     Num((IF old = NoRow THEN 0 ELSE OrZero(old.call_duration_secs))
         + OrZero(ev.call_duration_secs)),
   total_cost |-> Num(OrZero(ev.cost)),
   campaign_id |-> IF old = NoRow THEN NULL ELSE old.campaign_id]

\* the row the upsert writes: the columns of the payload replace the stored
\* ones, every other column of an existing row stays
WebhookConversationRow(old, ev, userId) ==
  [status |-> ev.status,
   user_id |-> userId,
   call_duration_secs |-> Num(OrZero(ev.call_duration_secs)),
   total_cost |-> Num(OrZero(ev.cost)),
   campaign_id |-> IF old = NoRow THEN NULL ELSE old.campaign_id]

\* a variant that takes the owner from the batch_calls row first; C17 must
\* tell it from the handler
ResolveOwnerBatchFirst(recs, bcalls, ev) ==
  LET rows == IF ev.batch_call_recipient_id # NoId
              THEN RecipientRows(recs, ev.batch_call_recipient_id) ELSE {}
      fromRecipient == IF Cardinality(rows) = 1
                       THEN recs[CHOOSE j \in rows : TRUE].user_id ELSE NULL
  IN IF ev.batch_call_id # NULL /\ ev.batch_call_id \in DOMAIN bcalls
     THEN bcalls[ev.batch_call_id].user_id
     ELSE fromRecipient
\* userId: from the recipient row, else from the batch_calls row
ResolveOwner(recs, bcalls, ev) ==
  LET rows == IF ev.batch_call_recipient_id # NoId
              THEN RecipientRows(recs, ev.batch_call_recipient_id) ELSE {}
      \* maybeSingle(): data is null unless exactly one row matches
      fromRecipient == IF Cardinality(rows) = 1
                       THEN recs[CHOOSE j \in rows : TRUE].user_id ELSE NULL
  IN IF fromRecipient # NULL THEN fromRecipient
     ELSE IF ev.batch_call_id # NULL /\ ev.batch_call_id \in DOMAIN bcalls
          THEN bcalls[ev.batch_call_id].user_id
          ELSE NULL

\* recipients.update({elevenlabs_conversation_id, status}).eq('elevenlabs_recipient_id', rid)
LinkRecipient(recs, rid, convId, status) ==
  [j \in 1..Len(recs) |->
     IF recs[j].elevenlabs_recipient_id = rid
     THEN [recs[j] EXCEPT !.elevenlabs_conversation_id = convId, !.status = status]
     ELSE recs[j]]

\* a variant that goes on to the recipient update when the conversation
\* upsert failed; C35 must tell it from the else branch of the handler
WebhookEffectLinkingAnyway(convs, trs, recs, bcalls, ev, errs) ==
  LET userId == ResolveOwner(recs, bcalls, ev)
      linked == IF ev.batch_call_recipient_id = NoId \/ "recipient" \in errs
                THEN recs
                ELSE LinkRecipient(recs, ev.batch_call_recipient_id,
                                   ev.conversation_id, ev.status)
  IN IF userId = NULL
     THEN [conversations |-> convs, transcripts |-> trs, recipients |-> recs]
     ELSE IF "conversation" \in errs
     THEN [conversations |-> convs, transcripts |-> trs, recipients |-> linked]
     ELSE [conversations |-> [convs EXCEPT ![ev.conversation_id] =
                                WebhookConversationRow(@, ev, userId)],
           transcripts |-> IF "transcript" \in errs THEN trs
                           ELSE trs \cup {ev.conversation_id},
           recipients |-> linked]

\* the three tables the handler writes, after it handled ev
WebhookEffect(convs, trs, recs, bcalls, ev, errs) ==
  LET userId == ResolveOwner(recs, bcalls, ev)
  IN IF userId = NULL \/ "conversation" \in errs
     THEN [conversations |-> convs, transcripts |-> trs, recipients |-> recs]
     ELSE [conversations |-> [convs EXCEPT ![ev.conversation_id] =
                                WebhookConversationRow(@, ev, userId)],
           transcripts |-> IF "transcript" \in errs THEN trs
                           ELSE trs \cup {ev.conversation_id},
           recipients |-> IF ev.batch_call_recipient_id = NoId \/ "recipient" \in errs
                          THEN recs
                          ELSE LinkRecipient(recs, ev.batch_call_recipient_id,
                                             ev.conversation_id, ev.status)]

WebhookPostCall(ev, errs) ==
  LET after == WebhookEffect(conversations, transcripts, recipients, batch_calls, ev, errs)
  IN /\ conversations' = after.conversations
     /\ transcripts' = after.transcripts
     /\ recipients' = after.recipients
     /\ hist' = LET stored == /\ ResolveOwner(recipients, batch_calls, ev) # NULL
                              /\ "conversation" \notin errs
                IN [hist EXCEPT !.dbError = @ \/ errs # {},
                                !.redelivered =
                                   IF stored /\ after.conversations = conversations
                                   THEN ev.conversation_id ELSE @]
     /\ UNCHANGED <<profiles, minutes_transactions, batch_calls, campaigns, poll, sweep>>

(***************************************************************************)
(* eleven-labs-webhook, batch_status_update.                               *)
(***************************************************************************)
\* batch_calls.update({status, total_calls_dispatched, last_updated_at_unix})
BatchRowUpdate(row, batchData) ==
  [row EXCEPT !.status = batchData.status,
              !.total_calls_dispatched = batchData.total_calls_dispatched,
              !.last_updated_at_unix = batchData.last_updated_at_unix]

\* a variant that also records a refund of the batch's deduction when the
\* event reports the batch completed; C11 must tell it from the handler
WebhookBatchStatusSettling(b, batchData, err) ==
  /\ batch_calls' = IF err THEN batch_calls
                    ELSE [batch_calls EXCEPT ![b] = BatchRowUpdate(@, batchData)]
  /\ minutes_transactions' =
       IF batchData.status = "completed"
       THEN Append(minutes_transactions,
                   [user_id |-> batch_calls[b].user_id,
                    campaign_id |-> batch_calls[b].campaign_id,
                    batch_id |-> b, transaction_type |-> "refund",
                    minutes |-> MinutesPerCall])
       ELSE minutes_transactions
  /\ hist' = [hist EXCEPT !.dbError = @ \/ err]
  /\ UNCHANGED <<profiles, conversations, transcripts, recipients, campaigns,
                 poll, sweep>>

WebhookBatchStatus(b, batchData, err) ==
  /\ batch_calls' = IF err THEN batch_calls
                    ELSE [batch_calls EXCEPT ![b] = BatchRowUpdate(@, batchData)]
  /\ hist' = [hist EXCEPT !.dbError = @ \/ err]
  /\ UNCHANGED <<profiles, minutes_transactions, conversations, transcripts,
                 recipients, campaigns, poll, sweep>>

(***************************************************************************)
(* eleven-labs-webhook, the request.  req is [method, secret, signature,   *)
(* body]: secret is ELEVENLABS_WEBHOOK_SECRET (NULL when not configured),  *)
(* signature the elevenlabs-signature header, body the raw text.           *)
(***************************************************************************)
\* HMAC-SHA256 of the body under a key, in hex: equal for equal (key, body)
\* only
Hmac(key, body) == [key |-> key, body |-> body]
\* `sha256=${expectedSignature}`
SignatureHeader(key, body) ==
  [present |-> TRUE, scheme |-> "sha256=", hex |-> Hmac(key, body)]
\* req.headers.get('elevenlabs-signature') is null
NoHeader == [present |-> FALSE]
\* a body JSON.parse throws on, and the text of a JSON value
MalformedBody == [text |-> "malformed"]
JsonBody(webhookData) == [text |-> "json", value |-> webhookData]
\* webhookData.data is undefined
NoData == [absent |-> TRUE]

\* a variant that compares only the hex digest and ignores the scheme prefix;
\* C15 must tell it from the comparison
SignatureMatchesHexOnly(req) ==
  req.signature.present /\ req.signature.hex = Hmac(req.secret, req.body)

\* signature === `sha256=${expectedSignature}`
SignatureMatches(req) ==
  req.signature = SignatureHeader(req.secret, req.body)

\* a variant that never takes the 'Unable to determine user_id' exit; C16
\* must tell it from the test
OwnerMissingNever(recs, bcalls, ev) == FALSE

\* if (!userId)
OwnerMissing(recs, bcalls, ev) == ResolveOwner(recs, bcalls, ev) = NULL

\* the response status and the four tables the handler writes, after the
\* request
WebhookHandle(req, errs, convs, trs, recs, bcalls) ==
  LET answer(code) == [status |-> code, conversations |-> convs, transcripts |-> trs,
                       recipients |-> recs, batch_calls |-> bcalls]
  IN IF req.method = "OPTIONS" THEN answer(200)
     \* JSON.parse(body) throws: catch, 500
     ELSE IF req.body.text # "json" THEN answer(500)
     \* throw new Error('Webhook secret not configured'): catch, 500
     ELSE IF req.secret = NULL THEN answer(500)
     ELSE IF ~SignatureMatches(req) THEN answer(401)
     ELSE LET webhookData == req.body.value
              data == webhookData.data
          IN IF webhookData.type = "post_call_transcription"
             THEN \* conversationData.batch_call of undefined throws: catch, 500
                  IF data = NoData THEN answer(500)
                  ELSE IF OwnerMissing(recs, bcalls, data)
                  THEN answer(400)
                  ELSE LET after == WebhookEffect(convs, trs, recs, bcalls, data, errs)
                       IN [status |-> 200,
                           conversations |-> after.conversations,
                           transcripts |-> after.transcripts,
                           recipients |-> after.recipients,
                           batch_calls |-> bcalls]
             ELSE IF webhookData.type = "batch_status_update"
             THEN IF data = NoData THEN answer(500)
                  ELSE [answer(200) EXCEPT !.batch_calls =
                          IF "batch" \in errs \/ data.batch_id \notin DOMAIN bcalls
                          THEN bcalls
                          ELSE [bcalls EXCEPT ![data.batch_id] = BatchRowUpdate(@, data)]]
             ELSE answer(200)

\* one request served
WebhookServe(req, errs) ==
  LET r == WebhookHandle(req, errs, conversations, transcripts, recipients, batch_calls)
  IN /\ conversations' = r.conversations
     /\ transcripts' = r.transcripts
     /\ recipients' = r.recipients
     /\ batch_calls' = r.batch_calls
     /\ hist' = [hist EXCEPT !.response = r.status,
                             !.dbError = @ \/ errs # {}]
     /\ UNCHANGED <<profiles, minutes_transactions, campaigns, poll, sweep>>

(***************************************************************************)
(* updateCampaignStatus.                                                   *)
(***************************************************************************)
\* a variant of the switch that compares the status as it is spelled; C14
\* must tell it from the switch
MapBatchStatusExact(batchStatus) ==
  IF batchStatus \in {"completed", "successful", "success"} THEN "Completed"
  ELSE IF batchStatus \in {"failed", "error", "cancelled"} THEN "Failed"
  ELSE NULL

\* the switch over batchStatus?.toLowerCase(); NULL is `campaignStatus = null`
\* a variant whose switch has a default branch that fails the campaign; C28
\* must tell it from the switch
MapBatchStatusDefaulting(batchStatus) ==
  LET s == IF batchStatus = NULL THEN NULL ELSE ToLowerCase(batchStatus)
  IN IF s \in {"completed", "successful", "success"} THEN "Completed"
     ELSE "Failed"

MapBatchStatus(batchStatus) ==
  LET s == IF batchStatus = NULL THEN NULL ELSE ToLowerCase(batchStatus)
  IN IF s \in {"completed", "successful", "success"} THEN "Completed"
     ELSE IF s \in {"failed", "error", "cancelled"} THEN "Failed"
     ELSE NULL

\* batch_calls.select('campaign_id').eq('batch_id', ...).eq('user_id', ...).single()
BatchCampaignId(bcalls, batchId, userId) ==
  IF bcalls[batchId].user_id = userId THEN bcalls[batchId].campaign_id ELSE NULL

\* the campaigns table after updateCampaignStatus(supabase, batchId, batchStatus, userId)
updateCampaignStatus(camps, bcalls, batchId, batchStatus, userId, errs) ==
  LET campaignId == BatchCampaignId(bcalls, batchId, userId)
      campaignStatus == MapBatchStatus(batchStatus)
  IN IF "fetch_batch" \in errs \/ campaignId = NULL THEN camps
     ELSE IF campaignStatus = NULL \/ "campaign" \in errs THEN camps
     ELSE [camps EXCEPT ![campaignId].status = campaignStatus]

(***************************************************************************)
(* The poll loop's recipient loop.  snapshot is batchData.recipients, a    *)
(* sequence of [id, status, conversation_id]; rerrs[i] names the storage   *)
(* call that fails for the i-th recipient ("none", "conversation" or       *)
(* "recipient").                                                           *)
(***************************************************************************)
\* a variant whose upsert replaces the whole row, so that the columns
\* missing in the payload become null; C29 must tell it from the upsert
PollConversationRowReplacing(old, recipient, userId, campaignId) ==
  [status |-> recipient.status,
   user_id |-> userId,
   campaign_id |-> campaignId,
   call_duration_secs |-> NoNumber,
   total_cost |-> NoNumber]

\* the row the poller's upsert writes: status, user_id and campaign_id come
\* from the payload, the other columns of an existing row stay
PollConversationRow(old, recipient, userId, campaignId) ==
  [status |-> recipient.status,
   user_id |-> userId,
   campaign_id |-> campaignId,
   call_duration_secs |-> IF old = NoRow THEN NoNumber ELSE old.call_duration_secs,
   total_cost |-> IF old = NoRow THEN NoNumber ELSE old.total_cost]

\* recipients.insert({...})
NewRecipientRow(recipient, batchId, userId) ==
  [elevenlabs_recipient_id |-> recipient.id,
   elevenlabs_batch_id |-> batchId,
   user_id |-> userId,
   status |-> recipient.status,
   elevenlabs_conversation_id |-> recipient.conversation_id]

\* recipients.update({status, elevenlabs_conversation_id, ...}).eq(...).eq(...)
UpdateRecipientRows(recs, recipient, batchId) ==
  [j \in 1..Len(recs) |->
     IF /\ recs[j].elevenlabs_recipient_id = recipient.id
        /\ recs[j].elevenlabs_batch_id = batchId
     THEN [recs[j] EXCEPT !.status = recipient.status,
                          !.elevenlabs_conversation_id = recipient.conversation_id]
     ELSE recs[j]]

RECURSIVE ProcessRecipientsAborting(_, _, _, _, _, _, _, _)
\* a variant whose loop ends at the first storage error; C26 must tell it
\* from the loop
ProcessRecipientsAborting(convs, recs, snapshot, rerrs, i, batchId, userId, campaignId) ==
  IF i > Len(snapshot) \/ rerrs[i] # "none"
  THEN [conversations |-> convs, recipients |-> recs]
  ELSE
    LET recipient == snapshot[i]
        existingRecipient ==
          Cardinality(RecipientRowsOfBatch(recs, recipient.id, batchId)) = 1
        convs2 == IF recipient.conversation_id # NoId
                  THEN [convs EXCEPT ![recipient.conversation_id] =
                          PollConversationRow(@, recipient, userId, campaignId)]
                  ELSE convs
        recs2 == IF existingRecipient
                 THEN UpdateRecipientRows(recs, recipient, batchId)
                 ELSE Append(recs, NewRecipientRow(recipient, batchId, userId))
    IN ProcessRecipientsAborting(convs2, recs2, snapshot, rerrs, i + 1,
                                 batchId, userId, campaignId)

RECURSIVE ProcessRecipients(_, _, _, _, _, _, _, _)
\* [conversations, recipients] after the loop body ran for snapshot[i..]
ProcessRecipients(convs, recs, snapshot, rerrs, i, batchId, userId, campaignId) ==
  IF i > Len(snapshot) THEN [conversations |-> convs, recipients |-> recs]
  ELSE
    LET recipient == snapshot[i]
        \* maybeSingle(): data is null unless exactly one row matches
        existingRecipient ==
          Cardinality(RecipientRowsOfBatch(recs, recipient.id, batchId)) = 1
        hasConversation == recipient.conversation_id # NoId
        upsertFails == hasConversation /\ rerrs[i] = "conversation"
        convs2 == IF hasConversation /\ ~upsertFails
                  THEN [convs EXCEPT ![recipient.conversation_id] =
                          PollConversationRow(@, recipient, userId, campaignId)]
                  ELSE convs
        recs2 == IF upsertFails \/ rerrs[i] = "recipient" THEN recs
                 ELSE IF existingRecipient
                      THEN UpdateRecipientRows(recs, recipient, batchId)
                      ELSE Append(recs, NewRecipientRow(recipient, batchId, userId))
    IN ProcessRecipients(convs2, recs2, snapshot, rerrs, i + 1,
                         batchId, userId, campaignId)

(***************************************************************************)
(* poll-batch-status: the request and one iteration of the poll loop up to *)
(* the termination check.                                                  *)
(***************************************************************************)
IdlePoll ==
  [pc |-> "idle", batchId |-> NULL, userId |-> NULL,
   isCompleted |-> FALSE, pollCount |-> 0, isFailedCampaign |-> FALSE,
   batchData |-> NoData, existingRecipient |-> FALSE,
   originalMinutes |-> 0, campaign_id |-> NULL, actualMinutesUsed |-> 0,
   refundMinutes |-> 0, newAvailableMinutes |-> 0]

\* a handleMinutesRefund call is between its first and its last round trip
InRefund(pl) ==
  pl.pc \in {"refund_deduction", "refund_conversations", "refund_profile",
             "refund_update", "refund_insert"}

\* const { batchId, userId } = await req.json()
PollStart(p, batchId, userId) ==
  /\ poll[p].pc = "idle"
  /\ poll' = [poll EXCEPT ![p] = [IdlePoll EXCEPT !.pc = "fetch",
                                                  !.batchId = batchId,
                                                  !.userId = userId]]
  /\ UNCHANGED <<tables, sweep, hist>>

\* a variant that reports a completed batch whenever the loop is left; C21
\* must tell it from the exit
PollExitCompleting(p) ==
  /\ poll[p].pc = "fetch"
  /\ ~(~poll[p].isCompleted /\ poll[p].pollCount < maxPolls)
  /\ poll' = [poll EXCEPT ![p].pc = "done", ![p].isCompleted = TRUE]
  /\ UNCHANGED <<tables, sweep, hist>>

\* the body of the response: { success: true, completed: isCompleted, pollCount }
PollResponse(pl) ==
  [success |-> TRUE, completed |-> pl.isCompleted, pollCount |-> pl.pollCount]

\* while (!isCompleted && pollCount < maxPolls): the loop is left
PollExit(p) ==
  /\ poll[p].pc = "fetch"
  /\ ~(~poll[p].isCompleted /\ poll[p].pollCount < maxPolls)
  /\ poll' = [poll EXCEPT ![p].pc = "done"]
  /\ UNCHANGED <<tables, sweep, hist>>

\* a variant whose catch leaves the loop; C20 must tell it from the handler
PollFetchErrorEnding(p) ==
  /\ poll[p].pc = "fetch"
  /\ ~poll[p].isCompleted /\ poll[p].pollCount < maxPolls
  /\ poll' = [poll EXCEPT ![p].pollCount = @ + 1, ![p].pc = "done"]
  /\ hist' = [hist EXCEPT !.fetches[p] = @ + 1]
  /\ UNCHANGED <<tables, sweep>>

\* the fetch fails (response not ok, or any exception of the iteration):
\* catch (pollError) { pollCount++ ... }
PollFetchError(p) ==
  /\ poll[p].pc = "fetch"
  /\ ~poll[p].isCompleted /\ poll[p].pollCount < maxPolls
  /\ poll' = [poll EXCEPT ![p].pollCount = @ + 1]
  \* if (pollCount < maxPolls) await setTimeout(pollInterval)
  /\ hist' = [hist EXCEPT !.fetches[p] = @ + 1,
                          !.waits[p] = IF poll[p].pollCount + 1 < maxPolls
                                       THEN @ + 1 ELSE @]
  /\ UNCHANGED <<tables, sweep>>

\* a variant in which an iteration that finds the batch completed goes to the
\* settlement without the campaign update and the recipient loop; C33 must
\* tell it from the order of the iteration
PollIterationSettlingFirst(p, batchData, errs, rerrs) ==
  /\ poll[p].pc = "fetch"
  /\ ~poll[p].isCompleted /\ poll[p].pollCount < maxPolls
  /\ IF batchData.status = "completed"
     THEN /\ poll' = [poll EXCEPT ![p] =
                 [@ EXCEPT !.isCompleted = TRUE, !.isFailedCampaign = FALSE,
                           !.pc = "refund_deduction"]]
          /\ hist' = [hist EXCEPT !.fetches[p] = @ + 1]
          /\ UNCHANGED <<batch_calls, campaigns, conversations, recipients>>
     ELSE LET batchId == poll[p].batchId
              userId == poll[p].userId
              after == ProcessRecipients(conversations, recipients,
                         batchData.recipients, rerrs, 1, batchId, userId,
                         BatchCampaignId(batch_calls, batchId, userId))
          IN /\ batch_calls' =
                  [batch_calls EXCEPT ![batchId] = BatchRowUpdate(@, batchData)]
             /\ campaigns' = updateCampaignStatus(campaigns, batch_calls, batchId,
                                                  batchData.status, userId, errs)
             /\ conversations' = after.conversations
             /\ recipients' = after.recipients
             /\ hist' = [hist EXCEPT !.fetches[p] = @ + 1]
             /\ poll' = [poll EXCEPT ![p] =
                   IF batchData.status = "failed" \/ batchData.status = "cancelled"
                   THEN [@ EXCEPT !.isFailedCampaign = TRUE, !.pc = "refund_deduction"]
                   ELSE [@ EXCEPT !.pollCount = @ + 1]]
  /\ UNCHANGED <<profiles, minutes_transactions, transcripts, sweep>>

\* the fetch answers batchData = [status, total_calls_dispatched,
\* last_updated_at_unix, recipients]; errs and rerrs are the storage errors
PollIteration(p, batchData, errs, rerrs) ==
  /\ poll[p].pc = "fetch"
  /\ ~poll[p].isCompleted /\ poll[p].pollCount < maxPolls
  /\ LET batchId == poll[p].batchId
         userId == poll[p].userId
         after == ProcessRecipients(conversations, recipients, batchData.recipients,
                    rerrs, 1, batchId, userId,
                    BatchCampaignId(batch_calls, batchId, userId))
     IN /\ batch_calls' =
             IF "batch" \in errs \/ batch_calls[batchId].user_id # userId
             THEN batch_calls
             ELSE [batch_calls EXCEPT ![batchId] = BatchRowUpdate(@, batchData)]
        /\ campaigns' = updateCampaignStatus(campaigns, batch_calls, batchId,
                                             batchData.status, userId, errs)
        /\ conversations' = after.conversations
        /\ recipients' = after.recipients
        /\ hist' = [hist EXCEPT
              !.dbError = @ \/ errs # {} \/ (\E i \in DOMAIN rerrs : rerrs[i] # "none"),
              !.overlap = @ \/ (batchData.status \in {"completed", "failed", "cancelled"}
                                /\ \E q \in Pollers \ {p} : InRefund(poll[q])),
              !.fetches[p] = @ + 1,
              \* if (!isCompleted && pollCount < maxPolls) await setTimeout(...)
              !.waits[p] = IF /\ batchData.status \notin {"completed", "failed", "cancelled"}
                              /\ poll[p].pollCount + 1 < maxPolls
                           THEN @ + 1 ELSE @]
        /\ poll' = [poll EXCEPT ![p] =
              IF batchData.status = "completed"
              THEN [@ EXCEPT !.isCompleted = TRUE, !.isFailedCampaign = FALSE,
                             !.pc = "refund_deduction"]
              ELSE IF batchData.status = "failed" \/ batchData.status = "cancelled"
              THEN [@ EXCEPT !.isFailedCampaign = TRUE, !.pc = "refund_deduction"]
              ELSE [@ EXCEPT !.pollCount = @ + 1]]
  /\ UNCHANGED <<profiles, minutes_transactions, transcripts, sweep>>

(***************************************************************************)
(* The same iteration in two steps, for an answer that lists one           *)
(* recipient: up to the select that looks for the recipient's row, and     *)
(* from there on.  Other requests run between the two.                     *)
(***************************************************************************)
\* fetch, batch_calls update, updateCampaignStatus, and
\* recipients.select('id').eq(...).eq(...).maybeSingle()
PollRecipientCheck(p, batchData) ==
  /\ poll[p].pc = "fetch"
  /\ ~poll[p].isCompleted /\ poll[p].pollCount < maxPolls
  /\ Len(batchData.recipients) = 1
  /\ LET batchId == poll[p].batchId
         userId == poll[p].userId
     IN /\ batch_calls' =
             IF batch_calls[batchId].user_id # userId THEN batch_calls
             ELSE [batch_calls EXCEPT ![batchId] = BatchRowUpdate(@, batchData)]
        /\ campaigns' = updateCampaignStatus(campaigns, batch_calls, batchId,
                                             batchData.status, userId, {})
        /\ poll' = [poll EXCEPT ![p] =
              [@ EXCEPT !.pc = "recipient_write", !.batchData = batchData,
                        !.existingRecipient =
                          Cardinality(RecipientRowsOfBatch(recipients,
                            batchData.recipients[1].id, batchId)) = 1]]
        /\ hist' = [hist EXCEPT !.fetches[p] = @ + 1]
  /\ UNCHANGED <<profiles, minutes_transactions, conversations, transcripts,
                 recipients, sweep>>

\* the conversation upsert, the recipient insert or update chosen by the
\* select's answer, and the termination check
PollRecipientWrite(p, rerr) ==
  /\ poll[p].pc = "recipient_write"
  /\ LET batchId == poll[p].batchId
         userId == poll[p].userId
         batchData == poll[p].batchData
         recipient == batchData.recipients[1]
         hasConversation == recipient.conversation_id # NoId
         upsertFails == hasConversation /\ rerr = "conversation"
     IN /\ conversations' =
             IF hasConversation /\ ~upsertFails
             THEN [conversations EXCEPT ![recipient.conversation_id] =
                     PollConversationRow(@, recipient, userId,
                                         BatchCampaignId(batch_calls, batchId, userId))]
             ELSE conversations
        /\ recipients' =
             IF upsertFails \/ rerr = "recipient" THEN recipients
             ELSE IF poll[p].existingRecipient
                  THEN UpdateRecipientRows(recipients, recipient, batchId)
                  ELSE Append(recipients, NewRecipientRow(recipient, batchId, userId))
        /\ hist' = [hist EXCEPT
              !.dbError = @ \/ rerr # "none",
              !.overlap = @ \/ (batchData.status \in {"completed", "failed", "cancelled"}
                                /\ \E q \in Pollers \ {p} : InRefund(poll[q])),
              !.waits[p] = IF /\ batchData.status \notin {"completed", "failed", "cancelled"}
                              /\ poll[p].pollCount + 1 < maxPolls
                           THEN @ + 1 ELSE @]
        /\ poll' = [poll EXCEPT ![p] =
              IF batchData.status = "completed"
              THEN [@ EXCEPT !.isCompleted = TRUE, !.isFailedCampaign = FALSE,
                             !.pc = "refund_deduction",
                             !.batchData = NoData, !.existingRecipient = FALSE]
              ELSE IF batchData.status = "failed" \/ batchData.status = "cancelled"
              THEN [@ EXCEPT !.isFailedCampaign = TRUE, !.pc = "refund_deduction",
                             !.batchData = NoData, !.existingRecipient = FALSE]
              ELSE [@ EXCEPT !.pollCount = @ + 1, !.pc = "fetch",
                             !.batchData = NoData, !.existingRecipient = FALSE]]
  /\ UNCHANGED <<profiles, minutes_transactions, transcripts, batch_calls,
                 campaigns, sweep>>

(***************************************************************************)
(* cleanup-minutes.  One step per storage round trip of the campaign loop. *)
(***************************************************************************)
IdleSweep ==
  [pc |-> "idle", runs |-> 0, cutoffTime |-> 0, queue |-> <<>>, failedCalls |-> 0,
   refundMinutes |-> 0, newAvailableMinutes |-> 0]

\* batch_calls!inner(batch_id, total_calls_scheduled): the batches of a campaign
BatchesOfCampaign(c) == {b \in DOMAIN batch_calls : batch_calls[b].campaign_id = c}
\* campaign.batch_calls[0]
FirstBatch(c) == CHOOSE b \in BatchesOfCampaign(c) : TRUE

\* a variant of the query without .eq('status', 'Completed'); C23 must tell
\* it from the query
SweepSelectionAnyStatus(now, campaignId) ==
  {c \in DOMAIN campaigns :
     /\ campaigns[c].launched_at # NoNumber
     /\ campaigns[c].launched_at[1] < now - GraceHours
     /\ BatchesOfCampaign(c) # {}
     /\ (campaignId # NULL => c = campaignId)}

\* .eq('status', 'Completed').lt('launched_at', cutoffTime) [.eq('id', campaignId)]
SweepSelection(now, campaignId) ==
  {c \in DOMAIN campaigns :
     /\ campaigns[c].status = "Completed"
     /\ campaigns[c].launched_at # NoNumber
     /\ campaigns[c].launched_at[1] < now - GraceHours
     /\ BatchesOfCampaign(c) # {}
     /\ (campaignId # NULL => c = campaignId)}

\* the sequences that list the elements of S once each
Orders(S) ==
  {q \in [1..Cardinality(S) -> S] : \A i, j \in DOMAIN q : i # j => q[i] # q[j]}

\* conversations.filter(c => status is done/completed).length
SuccessfulCalls(c) ==
  Cardinality({x \in ConversationsOfCampaign(c) : IsBillableStatus(conversations[x].status)})

\* the loop moves to the next campaign, or the response is sent
SweepNext(sw) ==
  LET rest == Tail(sw.queue)
  IN [sw EXCEPT !.queue = rest,
                !.pc = IF rest = <<>> THEN "idle" ELSE "conversations"]

\* the request: the campaigns query; Date.now() is `now` (hours)
SweepStart(now, campaignId, err) ==
  /\ sweep.pc = "idle"
  /\ sweep.runs < MaxSweeps
  /\ \E q \in Orders(SweepSelection(now, campaignId)) :
       sweep' = IF err \/ q = <<>>
                THEN [IdleSweep EXCEPT !.runs = sweep.runs + 1,
                                       !.cutoffTime = now - GraceHours]
                ELSE [IdleSweep EXCEPT !.runs = sweep.runs + 1,
                                       !.cutoffTime = now - GraceHours,
                                       !.queue = q, !.pc = "conversations"]
  /\ hist' = [hist EXCEPT !.dbError = @ \/ err]
  /\ UNCHANGED <<tables, poll>>

\* conversations.select('conversation_id, status').eq('campaign_id', campaign.id)
SweepConversations(err) ==
  /\ sweep.pc = "conversations"
  /\ LET c == Head(sweep.queue)
         expectedCalls == batch_calls[FirstBatch(c)].total_calls_scheduled
         failedCalls == expectedCalls - SuccessfulCalls(c)
     IN sweep' = IF err \/ failedCalls <= 0 THEN SweepNext(sweep)
                 ELSE [sweep EXCEPT !.failedCalls = failedCalls,
                                    !.refundMinutes = failedCalls * MinutesPerCall,
                                    !.pc = "profile"]
  /\ hist' = [hist EXCEPT !.dbError = @ \/ err]
  /\ UNCHANGED <<tables, poll>>

\* profiles.select('available_minutes').eq('user_id', campaign.user_id).single()
SweepProfile(err) ==
  /\ sweep.pc = "profile"
  /\ sweep' = IF err THEN SweepNext(sweep)
              ELSE [sweep EXCEPT
                      !.newAvailableMinutes =
                          OrZero(profiles[campaigns[Head(sweep.queue)].user_id])
                          + sweep.refundMinutes,
                      !.pc = "update"]
  /\ hist' = [hist EXCEPT !.dbError = @ \/ err]
  /\ UNCHANGED <<tables, poll>>

\* profiles.update({ available_minutes: newAvailableMinutes }).eq('user_id', ...)
SweepUpdate(err) ==
  /\ sweep.pc = "update"
  /\ IF err
     THEN /\ sweep' = SweepNext(sweep)
          /\ profiles' = profiles
          /\ hist' = [hist EXCEPT !.dbError = TRUE]
     ELSE /\ sweep' = [sweep EXCEPT !.pc = "insert"]
          /\ profiles' = [profiles EXCEPT ![campaigns[Head(sweep.queue)].user_id] =
                              Num(sweep.newAvailableMinutes)]
          /\ hist' = [hist EXCEPT !.credited = @ + sweep.refundMinutes]
  /\ UNCHANGED <<minutes_transactions, conversations, transcripts, recipients,
                 batch_calls, campaigns, poll>>

\* minutes_transactions.insert({..., transaction_type: 'refund', ...})
SweepInsert(err) ==
  /\ sweep.pc = "insert"
  /\ LET c == Head(sweep.queue)
     IN minutes_transactions' =
          IF err THEN minutes_transactions
          ELSE Append(minutes_transactions,
                 [user_id |-> campaigns[c].user_id,
                  campaign_id |-> c,
                  batch_id |-> FirstBatch(c),
                  transaction_type |-> "refund",
                  minutes |-> sweep.refundMinutes])
  /\ sweep' = SweepNext(sweep)
  /\ hist' = [hist EXCEPT !.dbError = @ \/ err]
  /\ UNCHANGED <<profiles, conversations, transcripts, recipients,
                 batch_calls, campaigns, poll>>

(***************************************************************************)
(* launch-campaign.  ok: the provider accepted the submission; err: the    *)
(* campaigns update returned an error; now: Date.now() in hours.           *)
(***************************************************************************)
\* campaigns.update({ status: 'Launched', launched_at }).eq('id', campaignId)
LaunchCampaign(campaignId, now, ok, err) ==
  /\ campaigns' =
       IF ok /\ ~err /\ campaignId \in DOMAIN campaigns
       THEN [campaigns EXCEPT ![campaignId] =
               [@ EXCEPT !.status = "Launched", !.launched_at = Num(now)]]
       ELSE campaigns
  /\ hist' = [hist EXCEPT !.dbError = @ \/ (ok /\ err)]
  /\ UNCHANGED <<profiles, minutes_transactions, conversations, transcripts,
                 recipients, batch_calls, poll, sweep>>

\* a variant that writes the campaign before it calls the provider; C37 must
\* tell it from the handler
LaunchServeUpdatingFirst(campaignId, now, elevenlabsApiKey, ok, err) ==
  /\ campaigns' =
       IF elevenlabsApiKey # NULL /\ ~err /\ campaignId \in DOMAIN campaigns
       THEN [campaigns EXCEPT ![campaignId] =
               [@ EXCEPT !.status = "Launched", !.launched_at = Num(now)]]
       ELSE campaigns
  /\ hist' = [hist EXCEPT
       !.dbError = @ \/ (elevenlabsApiKey # NULL /\ err),
       !.response = IF elevenlabsApiKey = NULL \/ ~ok THEN 500 ELSE 200]
  /\ UNCHANGED <<profiles, minutes_transactions, conversations, transcripts,
                 recipients, batch_calls, poll, sweep>>

\* the whole request: elevenlabsApiKey is Deno.env.get('ELEVENLABS_API_KEY')
\* (NULL: not set), ok is response.ok of the submission, err the error of the
\* campaigns update; the response is 200 with the provider's result, or 500
LaunchServe(campaignId, now, elevenlabsApiKey, ok, err) ==
  /\ campaigns' =
       IF elevenlabsApiKey # NULL /\ ok /\ ~err /\ campaignId \in DOMAIN campaigns
       THEN [campaigns EXCEPT ![campaignId] =
               [@ EXCEPT !.status = "Launched", !.launched_at = Num(now)]]
       ELSE campaigns
  /\ hist' = [hist EXCEPT
       !.dbError = @ \/ (elevenlabsApiKey # NULL /\ ok /\ err),
       !.response = IF elevenlabsApiKey = NULL \/ ~ok THEN 500 ELSE 200]
  /\ UNCHANGED <<profiles, minutes_transactions, conversations, transcripts,
                 recipients, batch_calls, poll, sweep>>

(***************************************************************************)
(* Inputs: what the provider and the storage layer may answer.             *)
(***************************************************************************)
\* the deduction written at launch: estimatedMinutes = contacts.length * 2
DeductionRow(b, c, u, scheduled) ==
  [user_id |-> u, campaign_id |-> c, batch_id |-> b,
   transaction_type |-> "deduction", minutes |-> scheduled * MinutesPerCall]

\* the batch as the provider reports it with a given status
BatchData(b, status, recs) ==
  [status |-> status,
   total_calls_dispatched |->
     IF status = "pending" THEN 0 ELSE batch_calls[b].total_calls_scheduled,
   last_updated_at_unix |-> IF status = "pending" THEN 1 ELSE 2,
   recipients |-> recs]

\* one recipient of a snapshot: not called yet, or called with an outcome
RecipientSnapshots(r, statuses) ==
  {[id |-> r, status |-> "pending", conversation_id |-> NoId]}
  \cup {[id |-> r, status |-> st, conversation_id |-> r] : st \in statuses}

\* batchData.recipients: absent, or one entry per recipient of the batch
SnapshotsOfBatch(b, statuses) ==
  LET n == batch_calls[b].total_calls_scheduled
  IN {<<>>} \cup
     {q \in [1..n -> UNION {RecipientSnapshots(<<b, i>>, statuses) : i \in 1..n}] :
        \A i \in 1..n : q[i].id = <<b, i>>}

\* a post_call_transcription event of the call <<b,i>>
\* post_call_transcription events of the calls in convs; data.batch_call is
\* present (linked) or missing
Events(convs, statuses, durations, linked) ==
  {[conversation_id |-> c, status |-> st, call_duration_secs |-> d, cost |-> d,
    batch_call_id |-> IF l THEN c[1] ELSE NULL,
    batch_call_recipient_id |-> IF l THEN c ELSE NoId] :
      c \in convs, st \in statuses, d \in durations, l \in linked}

\* nothing logged yet
NoLine == [originalMinutes |-> 0, actualMinutesUsed |-> 0, refundMinutes |-> -1]

\* dbError: some storage call returned an error; overlap: a settlement began
\* while another was between its round trips; credited: the refund amounts
\* written into profiles; returned: handleMinutesRefund calls that returned;
\* logged: the last usage line handleMinutesRefund logged; redelivered: the
\* conversation of the last event stored whose row was already as it writes
\* it; response: the status of the last response of the webhook or of
\* launch-campaign (0: none);
\* fetches, waits: the provider fetches a poll request made and the
\* pollInterval waits it began
InitHist ==
  [dbError |-> FALSE, overlap |-> FALSE, credited |-> 0,
   returned |-> [b \in Batches |-> 0], logged |-> NoLine,
   redelivered |-> NoId, response |-> 0,
   fetches |-> [p \in Pollers |-> 0], waits |-> [p \in Pollers |-> 0]]

(***************************************************************************)
(* Spec: two poll-batch-status requests for batch b1 and the webhook, on   *)
(* two launched campaigns of one user.                                     *)
(***************************************************************************)
InitialMinutes == 5

Init ==
  /\ profiles = [u \in Users |-> Num(InitialMinutes)]
  /\ minutes_transactions =
       <<DeductionRow("b1", "c1", "u1", MaxScheduled),
         DeductionRow("b2", "c2", "u1", MaxScheduled)>>
  /\ conversations = [c \in {<<b, i>> : b \in Batches, i \in 1..MaxScheduled} |-> NoRow]
  /\ transcripts = {}
  /\ recipients = <<>>
  /\ batch_calls =
       [b \in Batches |->
          [campaign_id |-> IF b = "b1" THEN "c1" ELSE "c2", user_id |-> "u1",
           status |-> "pending", total_calls_scheduled |-> MaxScheduled,
           total_calls_dispatched |-> 0, last_updated_at_unix |-> 0]]
  /\ campaigns = [c \in Campaigns |->
                    [status |-> "Launched", user_id |-> "u1", launched_at |-> Num(0)]]
  /\ poll = [p \in Pollers |-> IdlePoll]
  /\ sweep = IdleSweep
  /\ hist = InitHist

PollStatuses == {"in_progress", "completed", "failed"}

\* one iteration of the poll loop: the fetch fails, or it answers a status of
\* `statuses` and a snapshot whose called recipients have a status of
\* `recStatuses`, with storage errors of `rerrKinds` in the recipient loop.
\* The provider gives a poller at most MaxPending non-terminal answers.
PollLoop(p, statuses, recStatuses, rerrKinds) ==
  \/ /\ poll[p].pollCount < MaxPending
     /\ PollFetchError(p)
  \/ \E st \in statuses :
       /\ poll[p].pc = "fetch"
       /\ st \notin {"completed", "failed", "cancelled"} => poll[p].pollCount < MaxPending
       /\ \E recs \in SnapshotsOfBatch(poll[p].batchId, recStatuses) :
            \E rerrs \in [1..Len(recs) -> rerrKinds] :
              PollIteration(p, BatchData(poll[p].batchId, st, recs), {}, rerrs)

\* the round trips of handleMinutesRefund, each of which may fail
Refund(p) ==
  \/ \E err \in BOOLEAN : RefundDeduction(p, err)
  \/ \E err \in BOOLEAN : RefundConversations(p, err)
  \/ \E err \in BOOLEAN : RefundProfile(p, err)
  \/ \E err \in BOOLEAN : RefundUpdate(p, err)
  \/ \E err \in BOOLEAN : RefundInsert(p, err)

Poller(p, B) ==
  \/ \E b \in B : PollStart(p, b, "u1")
  \/ PollLoop(p, PollStatuses, {"completed"}, {"none"})
  \/ PollExit(p)
  \/ Refund(p)

Webhook(B) ==
  \/ \E ev \in Events({c \in ConvIds : c[1] \in B}, {"done"}, {Num(50)}, {TRUE}) :
       WebhookPostCall(ev, {})
  \/ \E b \in B : WebhookBatchStatus(b, BatchData(b, "completed", <<>>), FALSE)

Sweeper ==
  \/ \E now \in {GraceHours, GraceHours + 1} : SweepStart(now, NULL, FALSE)
  \/ \E err \in BOOLEAN : SweepConversations(err)
  \/ \E err \in BOOLEAN : SweepProfile(err)
  \/ \E err \in BOOLEAN : SweepUpdate(err)
  \/ \E err \in BOOLEAN : SweepInsert(err)

Next ==
  \/ \E p \in Pollers : Poller(p, {"b1"})
  \/ Webhook({"b1"})

Spec == Init /\ [][Next]_vars

(***************************************************************************)
(* SpecSweep: one poll request, the webhook and the sweeper on batch b1.   *)
(***************************************************************************)
NextSweep ==
  \/ Poller("p1", {"b1"})
  \/ Webhook({"b1"})
  \/ Sweeper

SpecSweep == Init /\ [][NextSweep]_vars

(***************************************************************************)
(* SpecTwoBatches: one poll request per batch, both for the same user.     *)
(***************************************************************************)
NextTwoBatches ==
  \/ Poller("p1", {"b1"})
  \/ Poller("p2", {"b2"})

SpecTwoBatches == Init /\ [][NextTwoBatches]_vars

(***************************************************************************)
(* Properties.                                                             *)
(***************************************************************************)
Balance(u) == OrZero(profiles[u])
RefundRows(b, u) == LedgerRows(b, u, "refund")
Refunded(b, u) == SumMinutes(RefundRows(b, u))
Deducted(b, u) == SumMinutes(LedgerRows(b, u, "deduction"))
\* the refund rows of a user, whatever the batch
RefundRowsOfUser(u) ==
  {i \in 1..Len(minutes_transactions) :
     /\ minutes_transactions[i].user_id = u
     /\ minutes_transactions[i].transaction_type = "refund"}
\* no handleMinutesRefund call and no cleanup run is between two round trips
Quiet == (\A p \in Pollers : ~InRefund(poll[p])) /\ sweep.pc = "idle"
\* both poll requests settled batch b as completed and have answered
BothSettledCompleted(b) ==
  /\ \A p \in Pollers : poll[p].pc = "done" /\ poll[p].batchId = b /\ poll[p].isCompleted
  /\ hist.returned[b] = 2

\* C1: two settlements of the same completed batch, one after the other, with
\* unused minutes and no storage error, leave exactly one refund row for
\* (user, batch) and raise available_minutes once, by the refund amount.
C1_NoDoubleRefundSequential ==
  (/\ BothSettledCompleted("b1")
   /\ ~hist.overlap /\ ~hist.dbError /\ sweep.runs = 0
   /\ RefundRows("b1", "u1") # {})
  => /\ Cardinality(RefundRows("b1", "u1")) = 1
     /\ Balance("u1") = InitialMinutes + Refunded("b1", "u1")

\* C2: after any sequence of settlement calls (no sweeper run), the minutes of
\* the refund rows of (user, batch) sum to at most the batch's deduction.
C2_RefundCap ==
  sweep.runs = 0 =>
    \A b \in Batches : Refunded(b, "u1") <= Deducted(b, "u1")

\* C3: two settlements of the same batch whose executions overlap: exactly one
\* inserts the refund row and raises the balance, the other changes nothing.
C3_ConcurrentSettlementOneWinner ==
  (/\ BothSettledCompleted("b1")
   /\ hist.overlap /\ ~hist.dbError /\ sweep.runs = 0
   /\ RefundRows("b1", "u1") # {})
  => /\ Cardinality(RefundRows("b1", "u1")) = 1
     /\ Balance("u1") = InitialMinutes + Refunded("b1", "u1")

\* C5: the balance increment and the refund row are one atomic effect: when
\* no settlement or sweep is mid-execution, what available_minutes gained
\* equals the minutes of the user's refund rows, storage errors included.
C5_BalanceMatchesRefundRows ==
  Quiet => Balance("u1") - InitialMinutes = SumMinutes(RefundRowsOfUser("u1"))

\* C9: the minutes refunded for (user, batch) are at most
\* max(0, deduction - billable minutes of the campaign's stored done/completed
\* conversations), also when call durations are ingested after the settlement.
\* Stated for runs with one completed settlement, no failed batch, no sweep.
C9_RefundWithinUnused ==
  (/\ sweep.runs = 0
   /\ \A p \in Pollers : ~poll[p].isFailedCampaign
   /\ Cardinality(RefundRows("b1", "u1")) <= 1)
  => Refunded("b1", "u1") <=
       Max(0, Deducted("b1", "u1")
              - ActualMinutesUsed(conversations, ConversationsOfCampaign("c1")))

\* C4: refunds for two different batches of one user, applied concurrently:
\* once both are through, available_minutes is the initial balance plus every
\* refund amount that was written to it; no update is lost.
C4_NoLostBalanceUpdate ==
  (Quiet /\ ~hist.dbError) => Balance("u1") = InitialMinutes + hist.credited

(***************************************************************************)
(* SpecSettle: one poll request that finds batch b1 finished, over the     *)
(* conversation tables a campaign of up to MaxCalls calls can have left.   *)
(***************************************************************************)
SettleStatuses ==
  {"done", "Done", "DONE", "completed", "Completed", "COMPLETED",
   "failed", "in_progress", NULL}
SettleDurations == {NoNumber} \cup {Num(d) : d \in -1..MaxDuration}
\* the calls of the larger tables: (status, call_duration_secs)
SettleKinds ==
  {<<"done", Num(50)>>, <<"failed", Num(0)>>, <<"Completed", Num(MaxDuration)>>,
   <<"in_progress", NoNumber>>}

StoredConversation(kind) ==
  [status |-> kind[1], user_id |-> "u1", campaign_id |-> "c1",
   call_duration_secs |-> kind[2], total_cost |-> NoNumber]

InitSettle ==
  /\ profiles = [u \in Users |-> Num(InitialMinutes)]
  /\ \E n \in 0..MaxCalls :
       /\ minutes_transactions = <<DeductionRow("b1", "c1", "u1", n)>>
       /\ batch_calls =
            [b \in Batches |->
               [campaign_id |-> IF b = "b1" THEN "c1" ELSE "c2", user_id |-> "u1",
                status |-> "pending",
                total_calls_scheduled |-> IF b = "b1" THEN n ELSE 0,
                total_calls_dispatched |-> 0, last_updated_at_unix |-> 0]]
       /\ \/ \* one call, of any status and duration
             /\ n = 1
             /\ \E st \in SettleStatuses, d \in SettleDurations :
                  conversations =
                    [c \in {<<"b1", i>> : i \in 1..MaxCalls} |->
                       IF c[2] = 1 THEN StoredConversation(<<st, d>>) ELSE NoRow]
          \/ \* n calls: the first k of one kind, the others of another
             \E k \in 0..n, k1 \in SettleKinds, k2 \in SettleKinds :
               conversations =
                 [c \in {<<"b1", i>> : i \in 1..MaxCalls} |->
                    IF c[2] <= k THEN StoredConversation(k1)
                    ELSE IF c[2] <= n THEN StoredConversation(k2)
                    ELSE NoRow]
  /\ transcripts = {}
  /\ recipients = <<>>
  /\ campaigns = [c \in Campaigns |->
                    [status |-> "Launched", user_id |-> "u1", launched_at |-> Num(0)]]
  /\ poll = [p \in Pollers |-> IdlePoll]
  /\ sweep = IdleSweep
  /\ hist = InitHist

NextSettle ==
  \/ PollStart("p1", "b1", "u1")
  \/ \E st \in {"completed", "failed", "cancelled"} :
       PollIteration("p1", BatchData("b1", st, <<>>), {}, <<>>)
  \/ PollExit("p1")
  \/ Refund("p1")

SpecSettle == InitSettle /\ [][NextSettle]_vars

\* the billing policy, case by case: nothing for a call that is not
\* done/completed (in any letter case) or has no duration, one minute up to
\* 60 seconds, else the least number of whole minutes that covers the duration
PolicyMinutes(durationSecs, status) ==
  IF status = NULL \/ ToLowerCase(status) \notin {"done", "completed"} THEN 0
  ELSE IF durationSecs <= 0 THEN 0
  ELSE IF durationSecs <= 60 THEN 1
  ELSE CHOOSE m \in 1..durationSecs :
         60 * (m - 1) < durationSecs /\ durationSecs <= 60 * m

RECURSIVE PolicyUsed(_)
\* U: the policy's minutes summed over the stored conversations with ids in S
PolicyUsed(S) ==
  IF S = {} THEN 0
  ELSE LET c == CHOOSE x \in S : TRUE
       IN PolicyMinutes(OrZero(conversations[c].call_duration_secs),
                        conversations[c].status)
          + PolicyUsed(S \ {c})

\* max(0, originalMinutes - U) for batch b1 of campaign c1
ExpectedRefund ==
  Max(0, Deducted("b1", "u1") - PolicyUsed(ConversationsOfCampaign("c1")))

\* the settlement is past the computation of refundMinutes
PastComputation(pl) ==
  pl.pc \in {"refund_profile", "refund_update", "refund_insert"}

\* C6: a non-failed settlement computes the refund max(0, originalMinutes - U),
\* U the billable minutes of the campaign's stored done/completed
\* conversations; once it is through without a storage error, a positive
\* refund is recorded as exactly one refund row of that amount and the balance
\* has risen by exactly it, and with U >= originalMinutes there is no refund
\* row and the balance is unchanged.
C6_RefundIsUnusedMinutes ==
  LET pl == poll["p1"]
  IN /\ (~pl.isFailedCampaign /\ PastComputation(pl))
          => pl.refundMinutes = ExpectedRefund
     /\ (hist.logged # NoLine) => hist.logged.refundMinutes = ExpectedRefund
     /\ (pl.pc = "done" /\ pl.isCompleted /\ ~hist.dbError)
          => IF ExpectedRefund > 0
             THEN /\ Cardinality(RefundRows("b1", "u1")) = 1
                  /\ Refunded("b1", "u1") = ExpectedRefund
                  /\ Balance("u1") = InitialMinutes + ExpectedRefund
             ELSE /\ RefundRows("b1", "u1") = {}
                  /\ Balance("u1") = InitialMinutes

\* the stored conversations of campaign c1 with a given status and duration
StoredAs(status, duration) ==
  {c \in ConversationsOfCampaign("c1") :
     /\ conversations[c].status = status
     /\ conversations[c].call_duration_secs = duration}

\* the scenario of C6: 20 minutes deducted, 8 done calls of 50 seconds and 2
\* failed calls, settled as completed: one refund row of 12, balance up by 12
C6_Witness ==
  /\ Deducted("b1", "u1") = 20
  /\ Cardinality(ConversationsOfCampaign("c1")) = 10
  /\ Cardinality(StoredAs("done", Num(50))) = 8
  /\ Cardinality(StoredAs("failed", Num(0))) = 2
  /\ poll["p1"].pc = "done" /\ poll["p1"].isCompleted /\ ~hist.dbError
  /\ Cardinality(RefundRows("b1", "u1")) = 1
  /\ Refunded("b1", "u1") = 12
  /\ Balance("u1") = InitialMinutes + 12

\* C7: the minutes the reducer counts for one conversation are a function of
\* (duration, status): 0 unless the status is done/completed in any letter
\* case; for such a status 0 for a duration of 0 or less, 1 for 1..60 seconds
\* and ceil(duration / 60) above (45 -> 1, 60 -> 1, 61 -> 2).  Checked on the
\* usage the settlement logged for a campaign with one stored conversation.
C7_BillableMinutesPolicy ==
  \A c \in ConvIds :
    (hist.logged # NoLine /\ ConversationsOfCampaign("c1") = {c})
      => LET d == OrZero(conversations[c].call_duration_secs)
             st == conversations[c].status
             billable == st # NULL /\ ToLowerCase(st) \in {"done", "completed"}
             U == hist.logged.actualMinutesUsed
         IN /\ U = PolicyMinutes(d, st)
            /\ ~billable => U = 0
            /\ (billable /\ d <= 0) => U = 0
            /\ (billable /\ d \in 1..60) => U = 1
            /\ (billable /\ d > 60) => (60 * (U - 1) < d /\ d <= 60 * U)
            /\ (billable /\ d = 45) => U = 1
            /\ (billable /\ d = 60) => U = 1
            /\ (billable /\ d = 61) => U = 2

\* a settlement logged 2 used minutes for one call of 61 seconds whose status
\* is written COMPLETED
C7_Witness ==
  /\ ConversationsOfCampaign("c1") = {<<"b1", 1>>}
  /\ conversations[<<"b1", 1>>].status = "COMPLETED"
  /\ conversations[<<"b1", 1>>].call_duration_secs = Num(61)
  /\ hist.logged # NoLine
  /\ hist.logged.actualMinutesUsed = 2

\* C8: a settlement invoked for a failed batch with a deduction row refunds
\* the whole deduction, whatever conversations are stored, and computes no
\* usage: once through without a storage error, the refund rows of
\* (user, batch) carry the deduction, the balance has risen by it, and no
\* usage line was logged.
C8_FailedRefundsInFull ==
  LET pl == poll["p1"]
  IN /\ (pl.isFailedCampaign /\ PastComputation(pl))
          => pl.refundMinutes = Deducted("b1", "u1")
     /\ (pl.isFailedCampaign /\ pl.pc \in {"done", "refund_conversations"})
          => hist.logged = NoLine /\ pl.pc = "done"
     /\ (pl.isFailedCampaign /\ pl.pc = "done" /\ ~hist.dbError)
          => /\ Refunded("b1", "u1") = Deducted("b1", "u1")
             /\ Deducted("b1", "u1") > 0 => Cardinality(RefundRows("b1", "u1")) = 1
             /\ Balance("u1") = InitialMinutes + Deducted("b1", "u1")

\* a failed batch was settled while its campaign had stored billable usage,
\* and the whole deduction of 20 came back
C8_Witness ==
  /\ poll["p1"].isFailedCampaign /\ poll["p1"].pc = "done" /\ ~hist.dbError
  /\ Deducted("b1", "u1") = 20
  /\ PolicyUsed(ConversationsOfCampaign("c1")) > 0
  /\ Refunded("b1", "u1") = 20
  /\ Balance("u1") = InitialMinutes + 20

(***************************************************************************)
(* SpecIngest: conversation events and poll snapshots of batch b1, with    *)
(* storage errors, while the batch is in progress.                         *)
(***************************************************************************)
IngestEvents ==
  Events({c \in ConvIds : c[1] = "b1"}, {"done", "failed"},
         {NoNumber, Num(50)}, BOOLEAN)
\* the storage calls of one delivery that fail: none, the conversation upsert
\* (the handler then skips the other two), or the other two
WebhookErrors == {{}, {"conversation"}, {"transcript", "recipient"}}

NextIngest ==
  \/ PollStart("p1", "b1", "u1")
  \/ PollLoop("p1", {"in_progress"}, {"completed"}, {"none"})
  \/ \E ev \in IngestEvents, errs \in WebhookErrors : WebhookPostCall(ev, errs)

SpecIngest == Init /\ [][NextIngest]_vars

\* C10: a post_call_transcription event that is stored and then delivered
\* again (whichever storage calls fail in either delivery) leaves the
\* conversation table as the first delivery left it: one row per
\* conversation_id with the same field values; and a delivery (a step that is
\* not a step of the poll request) appends no row to minutes_transactions.
C10_WebhookIdempotent ==
  /\ [](\A ev \in IngestEvents, first \in WebhookErrors, again \in WebhookErrors :
         LET once == WebhookEffect(conversations, transcripts, recipients,
                                   batch_calls, ev, first)
             twice == WebhookEffect(once.conversations, once.transcripts,
                                    once.recipients, batch_calls, ev, again)
         IN (ResolveOwner(recipients, batch_calls, ev) # NULL
             /\ "conversation" \notin first)
              => twice.conversations = once.conversations)
  /\ [][poll' = poll => minutes_transactions' = minutes_transactions]_vars

\* an event with a duration was delivered twice and stored both times: its
\* row holds the event's 50 seconds and the ledger has only the deductions
C10_Witness ==
  /\ hist.redelivered # NoId
  /\ conversations[hist.redelivered] # NoRow
  /\ conversations[hist.redelivered].status = "done"
  /\ conversations[hist.redelivered].call_duration_secs = Num(50)
  /\ Len(minutes_transactions) = 2

(***************************************************************************)
(* SpecOnePoller: one poll request for batch b1 and the webhook.           *)
(***************************************************************************)
NextOnePoller ==
  \/ Poller("p1", {"b1"})
  \/ Webhook({"b1"})

SpecOnePoller == Init /\ [][NextOnePoller]_vars

(***************************************************************************)
(* Frame and campaign-status properties.                                   *)
(***************************************************************************)
\* a step of the webhook: every step of a poll request or of the cleanup
\* moves that request's position, so a step moving neither is a delivery
WebhookStep == poll' = poll /\ sweep' = sweep

\* C11: processing a webhook event (post_call_transcription or
\* batch_status_update) leaves minutes_transactions and every user's
\* available_minutes as they were.
C11_WebhookLeavesLedger ==
  [][WebhookStep => (minutes_transactions' = minutes_transactions
                     /\ profiles' = profiles)]_vars

\* both kinds of event were processed (the call's duration is stored, the
\* batch row carries the reported counters) after a settlement had already
\* written a refund, and balance and ledger are as the settlement left them
C11_Witness ==
  /\ conversations[<<"b1", 1>>] # NoRow
  /\ conversations[<<"b1", 1>>].call_duration_secs = Num(50)
  /\ batch_calls["b1"].status = "completed"
  /\ Cardinality(RefundRows("b1", "u1")) = 1
  /\ Balance("u1") = InitialMinutes + Refunded("b1", "u1")
  /\ poll["p1"].pc = "done"

(***************************************************************************)
(* SpecLifecycle: one poll request for batch b1 that is answered any of    *)
(* the provider's statuses, in several letter cases, the webhook, and      *)
(* launch-campaign calls for campaign c1.                                  *)
(***************************************************************************)
\* statuses the campaign mapping knows, as the provider may spell them
MappedStatuses ==
  {"completed", "Completed", "successful", "SUCCESSFUL", "success", "Success",
   "failed", "FAILED", "error", "Error", "cancelled", "Cancelled"}
LifecycleStatuses == MappedStatuses \cup {"in_progress", "pending", NULL}

NextLifecycle ==
  \/ PollStart("p1", "b1", "u1")
  \/ PollLoop("p1", LifecycleStatuses, {"completed"}, {"none"})
  \/ PollExit("p1")
  \/ Refund("p1")
  \/ Webhook({"b1"})
  \/ \E ok \in BOOLEAN, err \in BOOLEAN : LaunchCampaign("c1", 0, ok, err)

SpecLifecycle == Init /\ [][NextLifecycle]_vars

TerminalCampaign(c) == campaigns[c].status \in {"Completed", "Failed"}

\* C12: once a campaign's status is Completed or Failed, no later operation
\* (poll iteration with any provider status, webhook event, launch-campaign
\* call) changes it to a different status.
C12_TerminalStatusStays ==
  [][\A c \in Campaigns :
       TerminalCampaign(c) => campaigns'[c].status = campaigns[c].status]_vars

\* C13: every transition of a campaign into Completed or Failed, for any
\* provider status that maps to it, comes with an invocation of settlement
\* for its batch by the poll iteration that made it, with failed = true
\* exactly when the campaign became Failed.
C13_TerminalTransitionSettles ==
  [][\A c \in Campaigns :
       (campaigns'[c].status # campaigns[c].status /\ campaigns'[c].status \in {"Completed", "Failed"})
         => \E p \in Pollers :
              /\ poll[p].pc = "fetch"
              /\ poll'[p].pc = "refund_deduction"
              /\ batch_calls[poll[p].batchId].campaign_id = c
              /\ poll'[p].isFailedCampaign = (campaigns'[c].status = "Failed")]_vars

\* the spellings the mapping is claimed to send to Completed and to Failed
SpelledCompleted ==
  {"completed", "Completed", "COMPLETED", "successful", "Successful",
   "SUCCESSFUL", "success", "Success", "SUCCESS"}
SpelledFailed ==
  {"failed", "Failed", "FAILED", "error", "Error", "ERROR", "cancelled",
   "Cancelled", "CANCELLED"}
\* every status of the model: the spellings above and statuses outside them
AnyStatus ==
  SpelledCompleted \cup SpelledFailed \cup LifecycleStatuses
    \cup {"", "done", "Done", "running", "In_Progress", "complete", "fail"}

\* C14: the batch-status to campaign-status mapping is total: for every
\* input, null and any letter case included, it yields Completed for
\* completed/successful/success, Failed for failed/error/cancelled and no
\* change for everything else; so in every state updateCampaignStatus, given
\* any status for batch b1, leaves campaign c1 Completed, Failed, or as it was.
C14_StatusMappingTotal ==
  \A st \in AnyStatus :
    LET after == updateCampaignStatus(campaigns, batch_calls, "b1", st, "u1", {})
    IN /\ MapBatchStatus(st) \in {"Completed", "Failed", NULL}
       /\ st \in SpelledCompleted => after["c1"].status = "Completed"
       /\ st \in SpelledFailed => after["c1"].status = "Failed"
       /\ st \notin SpelledCompleted \cup SpelledFailed => after = campaigns
       /\ after["c2"] = campaigns["c2"]

\* a poll iteration was answered SUCCESSFUL and the campaign is Completed; the
\* poll request is still polling
C14_Witness ==
  /\ batch_calls["b1"].status = "SUCCESSFUL"
  /\ campaigns["c1"].status = "Completed"
  /\ poll["p1"].pc = "fetch" /\ poll["p1"].pollCount > 0

(***************************************************************************)
(* SpecWebhook: requests to the webhook, verified or not, beside a poll    *)
(* request for batch b1 made in the name of the batch's user or of another *)
(* user.                                                                   *)
(***************************************************************************)
\* events of the call <<b1,1>>: the recipient id present or not, the batch id
\* that of b1, of no stored batch, or absent
ServeEvents ==
  {[conversation_id |-> <<"b1", 1>>, status |-> "done",
    call_duration_secs |-> Num(50), cost |-> NoNumber,
    batch_call_id |-> b, batch_call_recipient_id |-> r] :
      b \in {"b1", "b0", NULL}, r \in {<<"b1", 1>>, NoId}}

\* batch_status_update data for a stored batch and for an unknown one
ServeBatchData ==
  {[batch_id |-> b, status |-> "completed", total_calls_dispatched |-> 1,
    last_updated_at_unix |-> 2] : b \in {"b1", "b0"}}

\* webhookData: the two handled types with and without data, and another type
ServeData ==
  {[type |-> "post_call_transcription", data |-> ev] : ev \in ServeEvents \cup {NoData}}
  \cup {[type |-> "batch_status_update", data |-> d] : d \in ServeBatchData \cup {NoData}}
  \cup {[type |-> "ping", data |-> NoData]}

ServeBodies == {MalformedBody} \cup {JsonBody(d) : d \in ServeData}

\* the header absent, the signature of the body under the configured secret,
\* under another key, and the right digest without the sha256= prefix
ServeSignatures(body) ==
  {NoHeader, SignatureHeader("s1", body), SignatureHeader("s0", body),
   [SignatureHeader("s1", body) EXCEPT !.scheme = ""]}

\* the bodies sent with every method, secret setting and signature
ProbedBodies ==
  {MalformedBody,
   JsonBody([type |-> "post_call_transcription",
             data |-> [conversation_id |-> <<"b1", 1>>, status |-> "done",
                       call_duration_secs |-> Num(50), cost |-> NoNumber,
                       batch_call_id |-> "b1",
                       batch_call_recipient_id |-> <<"b1", 1>>]]),
   JsonBody([type |-> "batch_status_update",
             data |-> [batch_id |-> "b1", status |-> "completed",
                       total_calls_dispatched |-> 1, last_updated_at_unix |-> 2]])}

Requests ==
  {[method |-> "POST", secret |-> "s1", signature |-> SignatureHeader("s1", body),
    body |-> body] : body \in ServeBodies}
  \cup UNION {{[method |-> m, secret |-> k, signature |-> sig, body |-> body] :
                 m \in {"POST", "OPTIONS"}, k \in {"s1", NULL},
                 sig \in ServeSignatures(body)} : body \in ProbedBodies}

\* the storage errors a request can meet
ServeErrors(req) ==
  IF req.method = "POST" /\ req.secret = "s1" /\ req.body.text = "json"
     /\ req.signature = SignatureHeader("s1", req.body)
  THEN {{}, {"conversation"}, {"transcript", "recipient"}, {"batch"}}
  ELSE {{}}

NextWebhook ==
  \/ \E u \in {"u1", "u2"} : PollStart("p1", "b1", u)
  \/ PollLoop("p1", {"in_progress"}, {"completed"}, {"none"})
  \/ \E req \in Requests : \E errs \in ServeErrors(req) : WebhookServe(req, errs)

SpecWebhook == Init /\ [][NextWebhook]_vars

\* what the handler answers to req in the current state, and what it writes
Handled(req, errs) ==
  WebhookHandle(req, errs, conversations, transcripts, recipients, batch_calls)
Unwritten(r) ==
  /\ r.conversations = conversations /\ r.transcripts = transcripts
  /\ r.recipients = recipients /\ r.batch_calls = batch_calls

\* the signature header is not 'sha256=' followed by the hex HMAC-SHA256 of
\* the raw body under the endpoint's secret (a missing header included)
BadSignature(req) ==
  \/ ~req.signature.present
  \/ req.signature.scheme # "sha256="
  \/ req.signature.hex.key # req.secret
  \/ req.signature.hex.body # req.body

\* C15 as stated: every request with a bad signature is answered 401 and
\* writes nothing.
C15_BadSignatureAnswered401 ==
  \A req \in Requests :
    BadSignature(req) => (Handled(req, {}).status = 401 /\ Unwritten(Handled(req, {})))

\* C15, amended: a request with a bad signature writes to no store, and it is
\* answered 401 when it is not a preflight (OPTIONS) request, its body parses
\* as JSON and the secret is configured.
C15_BadSignatureWritesNothing ==
  \A req \in Requests :
    BadSignature(req) =>
      /\ Unwritten(Handled(req, {}))
      /\ (req.method # "OPTIONS" /\ req.body.text = "json" /\ req.secret # NULL)
           => Handled(req, {}).status = 401

\* a request was answered 401 when a conversation and its recipient row were
\* already stored, and they are still there
C15_Witness ==
  /\ hist.response = 401
  /\ conversations[<<"b1", 1>>] # NoRow
  /\ recipients # <<>>

\* the envelope is not {type, data}: it does not parse, or a handled type
\* comes without data
MalformedRequest(req) ==
  \/ req.body.text # "json"
  \/ /\ req.body.value.type \in {"post_call_transcription", "batch_status_update"}
     /\ req.body.value.data = NoData

\* the request is a verified conversation event whose owner is in neither
\* table
Unowned(req) ==
  /\ ~MalformedRequest(req) /\ ~BadSignature(req)
  /\ req.body.value.type = "post_call_transcription"
  /\ LET ev == req.body.value.data
     IN /\ ev.batch_call_recipient_id = NoId
           \/ \A j \in 1..Len(recipients) :
                recipients[j].elevenlabs_recipient_id # ev.batch_call_recipient_id
        /\ ev.batch_call_id = NULL \/ ev.batch_call_id \notin DOMAIN batch_calls

VerifiedEvent(ev) ==
  LET body == JsonBody([type |-> "post_call_transcription", data |-> ev])
  IN [method |-> "POST", secret |-> "s1",
      signature |-> SignatureHeader("s1", body), body |-> body]

BudgetStatuses == {"in_progress", "completed", "failed", "cancelled"}

NextPollBudget ==
  \/ PollStart("p1", "b1", "u1")
  \/ PollFetchError("p1")
  \/ \E st \in BudgetStatuses :
       \E recs \in SnapshotsOfBatch("b1", {"completed"}) :
         PollIteration("p1", BatchData("b1", st, recs), {}, [i \in 1..Len(recs) |-> "none"])
  \/ Refund("p1")
  \/ PollExit("p1")

SpecPollBudget == Init /\ [][NextPollBudget]_vars /\ WF_vars(NextPollBudget)

\* the loop condition holds: another fetch follows
FetchEnabled(p) ==
  poll[p].pc = "fetch" /\ ~poll[p].isCompleted /\ poll[p].pollCount < maxPolls

TerminalProviderStatuses == {"completed", "failed", "cancelled"}

\* C18: the polling loop terminates: it makes at most maxPolls provider
\* fetches whatever statuses and errors occur, it makes no fetch once the
\* provider answered completed, failed or cancelled, and the request ends.
C18_PollingTerminates ==
  /\ [][/\ hist'.fetches["p1"] <= maxPolls
        /\ batch_calls'["b1"].status \in TerminalProviderStatuses => ~FetchEnabled("p1")'
        /\ hist'.fetches["p1"] # hist.fetches["p1"]
             => batch_calls["b1"].status \notin TerminalProviderStatuses]_vars
  /\ <>(poll["p1"].pc = "done")

\* the request ended with the budget used up, after answers and failures
C18_Witness ==
  /\ poll["p1"].pc = "done"
  /\ ~poll["p1"].isCompleted /\ ~poll["p1"].isFailedCampaign
  /\ hist.fetches["p1"] = maxPolls
  /\ batch_calls["b1"].status = "in_progress"

\* C19: when the provider answers failed or cancelled the poller calls
\* handleMinutesRefund with isFailedCampaign = true, once, and fetches and
\* waits no more.
C19_FailedEndsPolling ==
  [][/\ (/\ hist'.fetches["p1"] # hist.fetches["p1"]
         /\ batch_calls'["b1"].status \in {"failed", "cancelled"})
        => /\ poll'["p1"].pc = "refund_deduction"
           /\ poll'["p1"].isFailedCampaign
           /\ hist'.waits["p1"] = hist.waits["p1"]
           /\ hist'.returned["b1"] = 0
     /\ poll["p1"].isFailedCampaign
        => /\ hist'.fetches["p1"] = hist.fetches["p1"]
           /\ hist'.waits["p1"] = hist.waits["p1"]
           /\ poll'["p1"].isFailedCampaign
           /\ InRefund(poll'["p1"]) \/ poll'["p1"].pc = "done"
           /\ ~InRefund(poll["p1"]) => poll'["p1"].pc = "done"
           /\ hist'.returned["b1"] = IF InRefund(poll'["p1"]) THEN 0 ELSE 1]_vars

\* a cancelled batch was settled in full after some waiting, and the request
\* ended
C19_Witness ==
  /\ poll["p1"].pc = "done" /\ poll["p1"].isFailedCampaign
  /\ batch_calls["b1"].status = "cancelled"
  /\ hist.fetches["p1"] = 3 /\ hist.waits["p1"] = 2
  /\ hist.returned["b1"] = 1
  /\ Refunded("b1", "u1") = Deducted("b1", "u1")

\* C20: an iteration that fails (a fetch that changes no table) uses up one
\* unit of the budget and does not end the loop: pollCount grows by one, no
\* settlement starts, and the next fetch follows unless the budget is spent.
C20_FailedIterationCounts ==
  [][(/\ hist'.fetches["p1"] = hist.fetches["p1"] + 1
      /\ tables' = tables)
       => /\ poll'["p1"].pollCount = poll["p1"].pollCount + 1
          /\ poll'["p1"].pc = "fetch"
          /\ ~poll'["p1"].isCompleted /\ ~poll'["p1"].isFailedCampaign
          /\ hist'.returned = hist.returned
          /\ poll'["p1"].pollCount < maxPolls => FetchEnabled("p1")'
          /\ hist'.waits["p1"] = hist.waits["p1"]
                + (IF poll'["p1"].pollCount < maxPolls THEN 1 ELSE 0)]_vars

\* every iteration but the last one of the budget failed (the batch row was
\* never updated), and the loop is still running
C20_Witness ==
  /\ FetchEnabled("p1")
  /\ poll["p1"].pollCount = maxPolls - 1
  /\ hist.fetches["p1"] = maxPolls - 1
  /\ batch_calls["b1"].status = "pending"

\* C21: when the loop is left with the budget used up and no completed,
\* failed or cancelled answer seen, the request reports completed = false
\* and pollCount = maxPolls; no settlement was invoked and the campaign
\* status, the balance and the ledger are as they were.
C21_ExhaustedReportsIncomplete ==
  [][(/\ poll["p1"].pc = "fetch" /\ poll'["p1"].pc = "done"
      /\ ~poll["p1"].isCompleted)
       => /\ PollResponse(poll'["p1"]) =
               [success |-> TRUE, completed |-> FALSE, pollCount |-> maxPolls]
          /\ hist'.returned["b1"] = 0
          /\ hist'.fetches["p1"] = maxPolls
          /\ RefundRows("b1", "u1")' = {}
          /\ profiles' = [u \in Users |-> Num(InitialMinutes)]
          /\ campaigns'["c1"].status = "Launched"
          /\ tables' = tables]_vars

\* the request ended incomplete after a whole budget of in_progress answers
\* and failures
C21_Witness ==
  /\ poll["p1"].pc = "done"
  /\ PollResponse(poll["p1"]) = [success |-> TRUE, completed |-> FALSE, pollCount |-> maxPolls]
  /\ batch_calls["b1"].status = "in_progress"
  /\ campaigns["c1"].status = "Launched"

\* C22: after any number of cleanup runs, alone or with the settlement of the
\* poll request, the ledger holds at most one refund row for (u1, b1) and
\* the refunds do not exceed the deduction.
C22_SweeperNoDoubleRefund ==
  /\ Cardinality(RefundRows("b1", "u1")) <= 1
  /\ Refunded("b1", "u1") <= Deducted("b1", "u1")

(***************************************************************************)
(* SpecCleanup: cleanup-minutes requests alone, on two campaigns of every  *)
(* status and age, with the call of batch b1 stored as done or not stored. *)
(***************************************************************************)
\* a campaign before its launch has no launched_at; the launch sets it
CleanupCampaigns ==
  {[status |-> "Draft", user_id |-> "u1", launched_at |-> NoNumber]}
  \cup {[status |-> st, user_id |-> "u1", launched_at |-> Num(t)] :
          st \in {"Launched", "Completed", "Failed"}, t \in {0, 1}}

InitCleanup ==
  /\ profiles = [u \in Users |-> Num(InitialMinutes)]
  /\ minutes_transactions =
       <<DeductionRow("b1", "c1", "u1", MaxScheduled),
         DeductionRow("b2", "c2", "u1", MaxScheduled)>>
  /\ \E stored \in BOOLEAN :
       conversations =
         [c \in {<<b, i>> : b \in Batches, i \in 1..MaxScheduled} |->
            IF stored /\ c = <<"b1", 1>>
            THEN StoredConversation(<<"done", Num(50)>>) ELSE NoRow]
  /\ transcripts = {}
  /\ recipients = <<>>
  /\ batch_calls =
       [b \in Batches |->
          [campaign_id |-> IF b = "b1" THEN "c1" ELSE "c2", user_id |-> "u1",
           status |-> "pending", total_calls_scheduled |-> MaxScheduled,
           total_calls_dispatched |-> 0, last_updated_at_unix |-> 0]]
  /\ campaigns \in [Campaigns -> CleanupCampaigns]
  /\ poll = [p \in Pollers |-> IdlePoll]
  /\ sweep = IdleSweep
  /\ hist = InitHist

NextCleanup ==
  \/ \E now \in GraceHours..(GraceHours + 2), campaignId \in {NULL, "c1"}, err \in BOOLEAN :
       SweepStart(now, campaignId, err)
  \/ \E err \in BOOLEAN : SweepConversations(err)
  \/ \E err \in BOOLEAN : SweepProfile(err)
  \/ \E err \in BOOLEAN : SweepUpdate(err)
  \/ \E err \in BOOLEAN : SweepInsert(err)

SpecCleanup == InitCleanup /\ [][NextCleanup]_vars

\* campaign c is Completed and was launched before the cutoff of the run
\* (Date.now() less the grace window)
CompletedAndOld(c) ==
  /\ campaigns[c].status = "Completed"
  /\ campaigns[c].launched_at # NoNumber
  /\ campaigns[c].launched_at[1] < sweep.cutoffTime

\* C23: a cleanup run changes the balance or the ledger only on behalf of a
\* campaign that is Completed and was launched more than the grace window
\* (4 hours) before the run; its ledger change is one refund row of that
\* campaign.
C23_SweeperOnlyOldCompleted ==
  [][(profiles' # profiles \/ minutes_transactions' # minutes_transactions)
       => /\ sweep.queue # <<>>
          /\ CompletedAndOld(Head(sweep.queue))
          /\ GraceHours = 4
          /\ minutes_transactions' # minutes_transactions
               => /\ Len(minutes_transactions') = Len(minutes_transactions) + 1
                  /\ SubSeq(minutes_transactions', 1, Len(minutes_transactions))
                       = minutes_transactions
                  /\ minutes_transactions'[Len(minutes_transactions')].campaign_id
                       = Head(sweep.queue)]_vars

\* a run refunded c1 and left c2 alone, which is as old but Failed
C23_Witness ==
  /\ sweep.pc = "idle" /\ sweep.runs > 0
  /\ campaigns["c2"].status = "Failed"
  /\ campaigns["c2"].launched_at = campaigns["c1"].launched_at
  /\ RefundRows("b1", "u1") # {}
  /\ RefundRows("b2", "u1") = {}

(***************************************************************************)
(* SpecBackstop: one poll request for batch b1 over its whole budget, the  *)
(* webhook delivering batch status events that are not a completion, and   *)
(* cleanup-minutes runs after the poll request has ended, when campaign c1 *)
(* is older than the grace window.  The poll request keeps running and the *)
(* cleanup job is scheduled again and again, hence the fairness.           *)
(***************************************************************************)
BackstopPoller ==
  \/ PollStart("p1", "b1", "u1")
  \/ PollFetchError("p1")
  \/ \E st \in BudgetStatuses :
       PollIteration("p1", BatchData("b1", st, <<>>), {}, <<>>)
  \/ Refund("p1")
  \/ PollExit("p1")

BackstopWebhook ==
  \E err \in BOOLEAN :
    WebhookBatchStatus("b1", BatchData("b1", "in_progress", <<>>), err)

BackstopSweeper ==
  \/ /\ poll["p1"].pc = "done"
     /\ SweepStart(GraceHours + 1, NULL, FALSE)
  \/ \E err \in BOOLEAN : SweepConversations(err)
  \/ \E err \in BOOLEAN : SweepProfile(err)
  \/ \E err \in BOOLEAN : SweepUpdate(err)
  \/ \E err \in BOOLEAN : SweepInsert(err)

NextBackstop == BackstopPoller \/ BackstopWebhook \/ BackstopSweeper

SpecBackstop ==
  /\ Init /\ [][NextBackstop]_vars
  /\ WF_vars(BackstopPoller) /\ WF_vars(BackstopSweeper)

\* the poll request ended with its budget used up and the batch not finished
PollExhausted ==
  /\ poll["p1"].pc = "done"
  /\ ~poll["p1"].isCompleted /\ ~poll["p1"].isFailedCampaign

\* C24: when no completion webhook arrives and the poll request uses up its
\* budget before the batch completes, the cleanup job is the backstop: a run
\* that starts afterwards, with the campaign older than the grace window and
\* not yet refunded, takes the campaign up for a refund.
C24_SweeperBackstop ==
  [][(/\ PollExhausted /\ RefundRows("b1", "u1") = {}
      /\ sweep.pc = "idle" /\ sweep'.runs = sweep.runs + 1)
       => (sweep'.pc = "conversations" /\ Head(sweep'.queue) = "c1")]_vars

(***************************************************************************)
(* SpecUncharged: one poll request for batch b1 on a ledger that holds no  *)
(* deduction row for the batch, one, or two.                               *)
(***************************************************************************)
UnchargedLedgers ==
  {<<>>,
   <<DeductionRow("b2", "c2", "u1", MaxScheduled)>>,
   <<DeductionRow("b1", "c1", "u1", MaxScheduled)>>,
   <<DeductionRow("b1", "c1", "u1", MaxScheduled),
     DeductionRow("b1", "c1", "u1", MaxScheduled)>>}

InitUncharged ==
  /\ profiles = [u \in Users |-> Num(InitialMinutes)]
  /\ minutes_transactions \in UnchargedLedgers
  /\ conversations = [c \in {<<b, i>> : b \in Batches, i \in 1..MaxScheduled} |-> NoRow]
  /\ transcripts = {}
  /\ recipients = <<>>
  /\ batch_calls =
       [b \in Batches |->
          [campaign_id |-> IF b = "b1" THEN "c1" ELSE "c2", user_id |-> "u1",
           status |-> "pending", total_calls_scheduled |-> MaxScheduled,
           total_calls_dispatched |-> 0, last_updated_at_unix |-> 0]]
  /\ campaigns = [c \in Campaigns |->
                    [status |-> "Launched", user_id |-> "u1", launched_at |-> Num(0)]]
  /\ poll = [p \in Pollers |-> IdlePoll]
  /\ sweep = IdleSweep
  /\ hist = InitHist

NextUncharged ==
  \/ PollStart("p1", "b1", "u1")
  \/ PollLoop("p1", {"in_progress", "completed", "failed", "cancelled"}, {"completed"}, {"none"})
  \/ Refund("p1")
  \/ PollExit("p1")

SpecUncharged == InitUncharged /\ [][NextUncharged]_vars

\* C25: when the ledger holds no deduction row for (batchId, userId),
\* handleMinutesRefund returns at once without raising: the balance and the
\* ledger stay as they are, and the poll loop goes on as after any
\* settlement (the response for a failed batch, the next loop test
\* otherwise).
C25_NoDeductionSkips ==
  [][(/\ poll["p1"].pc = "refund_deduction"
      /\ LedgerRows(poll["p1"].batchId, poll["p1"].userId, "deduction") = {}
      /\ poll' # poll)
       => /\ tables' = tables
          /\ hist'.returned["b1"] = hist.returned["b1"] + 1
          /\ hist'.credited = hist.credited
          /\ poll'["p1"].pc = IF poll["p1"].isFailedCampaign THEN "done" ELSE "fetch"
          /\ poll'["p1"].pollCount =
               poll["p1"].pollCount + (IF poll["p1"].isFailedCampaign THEN 0 ELSE 1)
          /\ poll'["p1"].isCompleted = poll["p1"].isCompleted]_vars

\* the request ended after a completed batch that was never charged: no
\* refund, the balance as before
C25_Witness ==
  /\ poll["p1"].pc = "done" /\ poll["p1"].isCompleted
  /\ hist.returned["b1"] = 1
  /\ LedgerRows("b1", "u1", "deduction") = {}
  /\ RefundRowsOfUser("u1") = {}
  /\ profiles["u1"] = Num(InitialMinutes)

(***************************************************************************)
(* SpecSiblings: one poll request for a batch of MaxSiblings recipients,   *)
(* with a storage error possible at each recipient of each snapshot.       *)
(***************************************************************************)
InitSiblings ==
  /\ profiles = [u \in Users |-> Num(InitialMinutes)]
  /\ minutes_transactions = <<DeductionRow("b1", "c1", "u1", MaxSiblings)>>
  /\ conversations = [c \in {<<"b1", i>> : i \in 1..MaxSiblings} |-> NoRow]
  /\ transcripts = {}
  /\ recipients = <<>>
  /\ batch_calls =
       [b \in Batches |->
          [campaign_id |-> IF b = "b1" THEN "c1" ELSE "c2", user_id |-> "u1",
           status |-> "pending",
           total_calls_scheduled |-> IF b = "b1" THEN MaxSiblings ELSE 0,
           total_calls_dispatched |-> 0, last_updated_at_unix |-> 0]]
  /\ campaigns = [c \in Campaigns |->
                    [status |-> "Launched", user_id |-> "u1", launched_at |-> Num(0)]]
  /\ poll = [p \in Pollers |-> IdlePoll]
  /\ sweep = IdleSweep
  /\ hist = InitHist

\* the storage call of a recipient that fails: none, the conversation
\* upsert, or the recipient insert or update
RecipientErrors == {"none", "conversation", "recipient"}

NextSiblings ==
  \/ PollStart("p1", "b1", "u1")
  \/ PollLoop("p1", {"in_progress", "completed", "failed"}, {"completed"}, RecipientErrors)
  \/ Refund("p1")
  \/ PollExit("p1")

SpecSiblings == InitSiblings /\ [][NextSiblings]_vars

\* the rows of a recipients table for one provider recipient id
RowsOfRecipient(recs, rid) ==
  {recs[j] : j \in {k \in 1..Len(recs) : recs[k].elevenlabs_recipient_id = rid}}

\* the storage errors of a snapshot of n recipients of which one fails
OneRecipientFails(n) ==
  {[i \in 1..n |-> IF i = k THEN e ELSE "none"] :
     k \in 1..n, e \in RecipientErrors \ {"none"}}

\* C26: a storage error at one recipient of a snapshot leaves the other
\* recipients of the snapshot processed as they are without any error, and
\* the iteration still reaches its termination check: once a finished batch
\* was fetched the settlement is under way or has returned.
C26_SiblingsProcessed ==
  /\ \A q \in SnapshotsOfBatch("b1", {"completed"}) :
       \A good \in {ProcessRecipients(conversations, recipients, q,
                                      [i \in 1..Len(q) |-> "none"], 1,
                                      "b1", "u1", "c1")} :
         \A rerrs \in OneRecipientFails(Len(q)) :
           \A bad \in {ProcessRecipients(conversations, recipients, q, rerrs, 1,
                                         "b1", "u1", "c1")} :
            \A k \in 1..Len(q) :
              rerrs[k] = "none" =>
                /\ RowsOfRecipient(bad.recipients, q[k].id)
                     = RowsOfRecipient(good.recipients, q[k].id)
                /\ q[k].conversation_id # NoId
                     => bad.conversations[q[k].conversation_id]
                          = good.conversations[q[k].conversation_id]
  /\ batch_calls["b1"].status \in TerminalProviderStatuses
       => /\ InRefund(poll["p1"]) \/ hist.returned["b1"] = 1
          /\ poll["p1"].isFailedCampaign = (batch_calls["b1"].status # "completed")
          /\ hist.fetches["p1"] = poll["p1"].pollCount
                + (IF InRefund(poll["p1"]) \/ poll["p1"].isFailedCampaign THEN 1 ELSE 0)

\* the insert of the first recipient failed; the second one was stored and
\* the settlement of the completed batch began
C26_Witness ==
  /\ hist.dbError
  /\ poll["p1"].pc = "refund_deduction" /\ poll["p1"].isCompleted
  /\ Len(recipients) = 1
  /\ recipients[1].elevenlabs_recipient_id = <<"b1", 2>>
  /\ conversations[<<"b1", 2>>] # NoRow

(***************************************************************************)
(* SpecBatchEvents: the batch status of b1 arriving on both paths, in a    *)
(* poll iteration and in a batch_status_update webhook, with every mapped  *)
(* status and some that are not mapped.                                    *)
(***************************************************************************)
MappedCompleted == {"completed", "successful", "success"}
MappedFailed == {"failed", "error", "cancelled"}
UnmappedStatuses == {"pending", "in_progress", NULL}
BatchEventStatuses == MappedCompleted \cup MappedFailed \cup UnmappedStatuses

\* a poll iteration that fetches status st (no recipients in the answer)
BatchEventPoll(st) ==
  /\ st \notin TerminalProviderStatuses => poll["p1"].pollCount < MaxPending
  /\ PollIteration("p1", BatchData("b1", st, <<>>), {}, <<>>)

\* a batch_status_update webhook with status st
BatchEventWebhook(st) ==
  WebhookBatchStatus("b1", BatchData("b1", st, <<>>), FALSE)

NextBatchEvents ==
  \/ PollStart("p1", "b1", "u1")
  \/ \E st \in BatchEventStatuses : BatchEventPoll(st)
  \/ \E st \in BatchEventStatuses : BatchEventWebhook(st)
  \/ Refund("p1")
  \/ PollExit("p1")

SpecBatchEvents == Init /\ [][NextBatchEvents]_vars

\* the batch_calls row of b1 holds the fields of the event with status st
BatchRowHolds(row, st) ==
  /\ row.status = st
  /\ row.total_calls_dispatched = (IF st = "pending" THEN 0 ELSE row.total_calls_scheduled)
  /\ row.last_updated_at_unix = (IF st = "pending" THEN 1 ELSE 2)

\* C27: on both paths, poll iteration and batch_status_update webhook, a
\* batch status event updates the batch_calls fields and moves the linked
\* campaign to Completed for completed, successful, success and to Failed for
\* failed, error, cancelled.
C27_BatchEventDrivesCampaign ==
  [][\A st \in MappedCompleted \cup MappedFailed :
       (BatchEventPoll(st) \/ BatchEventWebhook(st))
         => /\ BatchRowHolds(batch_calls'["b1"], st)
            /\ campaigns'["c1"].status =
                 (IF st \in MappedCompleted THEN "Completed" ELSE "Failed")]_vars

\* C28: a batch status event with a status outside the six mapped ones
\* leaves the campaigns as they are and still updates status, dispatched
\* count and last-updated of the batch_calls row.
C28_UnmappedLeavesCampaign ==
  [][\A st \in UnmappedStatuses :
       (BatchEventPoll(st) \/ BatchEventWebhook(st))
         => /\ campaigns' = campaigns
            /\ BatchRowHolds(batch_calls'["b1"], st)]_vars

\* an in_progress event arrived after the campaign was completed: the
\* campaign is still Completed and the batch row holds the event
C28_Witness ==
  /\ campaigns["c1"].status = "Completed"
  /\ BatchRowHolds(batch_calls["b1"], "in_progress")

\* conversation events of batch b1 with no duration or one of two durations
FinancialEvents ==
  Events({c \in ConvIds : c[1] = "b1"}, {"done"},
         {NoNumber, Num(50), Num(70)}, BOOLEAN)

\* the snapshots of b1 that list the conversation c
SnapshotsWith(c) ==
  {q \in SnapshotsOfBatch("b1", {"completed"}) :
     \E k \in 1..Len(q) : q[k].conversation_id = c}

\* the financial fields of row are those of event ev
FinancialFieldsOf(row, ev) ==
  /\ row.call_duration_secs = Num(OrZero(ev.call_duration_secs))
  /\ row.total_cost = Num(OrZero(ev.cost))

\* C29: the poller's upsert of an existing conversation leaves
\* call_duration_secs and total_cost as stored; the webhook's upsert sets
\* them to the event's values, not added to the stored ones, and leaves
\* campaign_id as stored; after a poll snapshot and a webhook event in either
\* order the row has the poll's campaign_id and the event's duration and cost
\* (for events the handler accepts, those whose owner it can resolve).
C29_FinancialFieldsKept ==
  \A ev \in FinancialEvents : \A q \in SnapshotsWith(ev.conversation_id) :
    LET c == ev.conversation_id
        old == conversations[c]
        none == [i \in 1..Len(q) |-> "none"]
        p == ProcessRecipients(conversations, recipients, q, none, 1, "b1", "u1", "c1")
        w == WebhookEffect(conversations, transcripts, recipients, batch_calls, ev, {})
        pw == WebhookEffect(p.conversations, transcripts, p.recipients, batch_calls, ev, {})
        wp == ProcessRecipients(w.conversations, w.recipients, q, none, 1, "b1", "u1", "c1")
    IN /\ old # NoRow =>
            /\ p.conversations[c].call_duration_secs = old.call_duration_secs
            /\ p.conversations[c].total_cost = old.total_cost
       /\ ResolveOwner(recipients, batch_calls, ev) # NULL =>
            /\ FinancialFieldsOf(w.conversations[c], ev)
            /\ old # NoRow => w.conversations[c].campaign_id = old.campaign_id
            /\ wp.conversations[c].campaign_id = "c1"
            /\ FinancialFieldsOf(wp.conversations[c], ev)
       /\ ResolveOwner(p.recipients, batch_calls, ev) # NULL =>
            /\ pw.conversations[c].campaign_id = "c1"
            /\ FinancialFieldsOf(pw.conversations[c], ev)

\* a conversation stored by the poller and then by the webhook: the
\* campaign of the poll, the duration and cost of the event
C29_Witness ==
  /\ conversations[<<"b1", 1>>] # NoRow
  /\ conversations[<<"b1", 1>>].campaign_id = "c1"
  /\ conversations[<<"b1", 1>>].status = "done"
  /\ conversations[<<"b1", 1>>].call_duration_secs = Num(50)
  /\ conversations[<<"b1", 1>>].total_cost = Num(50)

(***************************************************************************)
(* SpecRecipientRace: two poll requests for batch b1 whose iterations      *)
(* interleave between the select of a recipient's row and its insert.      *)
(***************************************************************************)
\* the answers of the provider: b1 in progress or completed, its first
\* recipient not called yet or called
RaceAnswers ==
  {BatchData("b1", st, <<r>>) :
     st \in {"in_progress", "completed"},
     r \in RecipientSnapshots(<<"b1", 1>>, {"completed"})}

NextRecipientRace ==
  \/ \E p \in Pollers : PollStart(p, "b1", "u1")
  \/ \E p \in Pollers : \E batchData \in RaceAnswers :
       /\ batchData.status = "in_progress" => poll[p].pollCount < MaxPending
       /\ PollRecipientCheck(p, batchData)
  \/ \E p \in Pollers : \E rerr \in RecipientErrors : PollRecipientWrite(p, rerr)
  \/ \E p \in Pollers : Refund(p)
  \/ \E p \in Pollers : PollExit(p)

SpecRecipientRace == Init /\ [][NextRecipientRace]_vars

\* C30: the recipients table never holds two rows with the same provider
\* recipient id and batch id, also when two poll requests for the batch run
\* at once.
C30_OneRowPerRecipient ==
  \A j, k \in 1..Len(recipients) :
    (/\ recipients[j].elevenlabs_recipient_id = recipients[k].elevenlabs_recipient_id
     /\ recipients[j].elevenlabs_batch_id = recipients[k].elevenlabs_batch_id)
      => j = k

(***************************************************************************)
(* SpecRefundRows: one poll request that finds batch b1 finished, and the  *)
(* cleanup runs, over the conversation tables of SpecSettle.               *)
(***************************************************************************)
NextRefundRows ==
  \/ NextSettle
  \/ Sweeper

SpecRefundRows == InitSettle /\ [][NextRefundRows]_vars

\* C31: every 'refund' row of the ledger, written by a settlement or by a
\* cleanup run, has minutes greater than 0.
C31_RefundRowsPositive ==
  \A i \in 1..Len(minutes_transactions) :
    minutes_transactions[i].transaction_type = "refund"
      => minutes_transactions[i].minutes > 0

\* a settlement and a cleanup run have each written a refund row for b1
C31_Witness ==
  /\ Cardinality(RefundRows("b1", "u1")) = 2
  /\ hist.logged # NoLine /\ hist.logged.refundMinutes > 0
  /\ poll["p1"].pc = "done"
  /\ sweep.runs = 1 /\ sweep.pc = "idle"

\* C32: a poll iteration that changes a campaign's status to Completed or
\* Failed ends the polling of its request: after the step the request is
\* settling or has left the loop, and will not fetch the batch again.
C32_TerminalWriteStopsPolling ==
  [][\A p \in Pollers, c \in Campaigns :
       (/\ poll[p].pc = "fetch" /\ poll'[p] # poll[p]
        /\ batch_calls[poll[p].batchId].campaign_id = c
        /\ campaigns'[c].status # campaigns[c].status
        /\ campaigns'[c].status \in {"Completed", "Failed"})
         => ~(/\ poll'[p].pc = "fetch"
              /\ ~poll'[p].isCompleted /\ poll'[p].pollCount < maxPolls)]_vars

(***************************************************************************)
(* SpecOrdering: one poll request on batch b1, with storage errors in the  *)
(* campaign update and in the recipient loop of its iterations.            *)
(***************************************************************************)
\* the storage call of the iteration that fails, outside the recipient loop
IterationErrors == {{}, {"batch"}, {"fetch_batch"}, {"campaign"}}

NextOrdering ==
  \/ PollStart("p1", "b1", "u1")
  \/ \E st \in {"in_progress", "completed"}, errs \in IterationErrors :
       /\ poll["p1"].pc = "fetch"
       /\ st = "in_progress" => poll["p1"].pollCount < MaxPending
       /\ \E recs \in SnapshotsOfBatch("b1", {"completed"}) :
            \E rerrs \in [1..Len(recs) -> RecipientErrors] :
              PollIteration("p1", BatchData("b1", st, recs), errs, rerrs)
  \/ Refund("p1")
  \/ PollExit("p1")

SpecOrdering == Init /\ [][NextOrdering]_vars

\* C33: the poll iteration that finds the batch 'completed' has, when it
\* hands over to the settlement and before the settlement made any read, set
\* the campaign to Completed and written the conversation and the recipient
\* of every entry of the snapshot (each write that storage accepted).
C33_WritesPrecedeSettlement ==
  [][(poll["p1"].pc = "fetch" /\ poll'["p1"] # poll["p1"]) =>
       \A errs \in IterationErrors :
       \A recs \in SnapshotsOfBatch("b1", {"completed"}) :
       \A rerrs \in [1..Len(recs) -> RecipientErrors] :
         PollIteration("p1", BatchData("b1", "completed", recs), errs, rerrs)
         => /\ poll'["p1"].pc = "refund_deduction"
            /\ errs \cap {"fetch_batch", "campaign"} = {}
                 => campaigns'["c1"].status = "Completed"
            /\ \A i \in 1..Len(recs) :
                 /\ (recs[i].conversation_id # NoId /\ rerrs[i] # "conversation")
                    => /\ conversations'[recs[i].conversation_id] # NoRow
                       /\ conversations'[recs[i].conversation_id].status = recs[i].status
                       /\ conversations'[recs[i].conversation_id].campaign_id = "c1"
                 /\ rerrs[i] = "none"
                    => \E j \in RecipientRowsOfBatch(recipients', recs[i].id, "b1") :
                         /\ recipients'[j].status = recs[i].status
                         /\ recipients'[j].elevenlabs_conversation_id =
                              recs[i].conversation_id]_vars

\* the settlement of a completed batch is about to read the conversations,
\* and the conversation of the snapshot is stored under a Completed campaign
C33_Witness ==
  /\ poll["p1"].pc = "refund_conversations" /\ poll["p1"].isCompleted
  /\ campaigns["c1"].status = "Completed"
  /\ conversations[<<"b1", 1>>] # NoRow
  /\ conversations[<<"b1", 1>>].status = "completed"
  /\ \E j \in RecipientRowsOfBatch(recipients, <<"b1", 1>>, "b1") :
       recipients[j].elevenlabs_conversation_id = <<"b1", 1>>

(***************************************************************************)
(* SpecLink: poll requests for batch b1, their iterations in two steps,    *)
(* and the post-call webhook of its first call.  The provider lists the    *)
(* recipient as not called only while no conversation of it is stored.     *)
(***************************************************************************)
\* the call took place: a poll iteration or the webhook stored its conversation
Called(c) == conversations[c] # NoRow

NextLink ==
  \/ \E p \in Pollers : PollStart(p, "b1", "u1")
  \/ \E p \in Pollers : \E batchData \in RaceAnswers :
       /\ batchData.status = "in_progress"
       /\ poll[p].pollCount < MaxPending
       /\ Called(<<"b1", 1>>) => batchData.recipients[1].conversation_id # NoId
       /\ PollRecipientCheck(p, batchData)
  \/ \E p \in Pollers : PollRecipientWrite(p, "none")
  \/ \E ev \in Events({<<"b1", 1>>}, {"done"}, {Num(50)}, {TRUE}) :
       WebhookPostCall(ev, {})

SpecLink == Init /\ [][NextLink]_vars

\* C34: a recipient row that holds a conversation id holds one after every
\* later poll iteration and webhook event: the link is never set back to
\* null.
C34_LinkNeverReset ==
  [][\A j \in 1..Len(recipients) :
       recipients[j].elevenlabs_conversation_id # NoId
         => recipients'[j].elevenlabs_conversation_id # NoId]_vars

(***************************************************************************)
(* SpecIntegrity: one poll request and the post-call webhook on batch b1,  *)
(* with storage errors in the recipient loop and in the handler.           *)
(***************************************************************************)
\* the conversation upsert of a snapshot entry succeeds or fails
UpsertErrors == {"none", "conversation"}

NextIntegrity ==
  \/ PollStart("p1", "b1", "u1")
  \/ PollLoop("p1", {"in_progress"}, {"completed"}, UpsertErrors)
  \/ \E ev \in IngestEvents, errs \in WebhookErrors : WebhookPostCall(ev, errs)

SpecIntegrity == Init /\ [][NextIntegrity]_vars

\* C35: every conversation id held by a recipient row is the id of a stored
\* conversation; and an event or snapshot entry whose conversation upsert
\* fails leaves the rows of its recipient, and the conversation, as they were.
C35_RecipientLinkIntegrity ==
  /\ \A j \in 1..Len(recipients) :
       recipients[j].elevenlabs_conversation_id # NoId
         => conversations[recipients[j].elevenlabs_conversation_id] # NoRow
  /\ \A ev \in IngestEvents :
       \A after \in {WebhookEffect(conversations, transcripts, recipients,
                                   batch_calls, ev, {"conversation"})} :
         after.recipients = recipients /\ after.conversations = conversations
  /\ \A recs \in SnapshotsOfBatch("b1", {"completed"}) :
       \A rerrs \in [1..Len(recs) -> UpsertErrors] :
         \A after \in {ProcessRecipients(conversations, recipients, recs, rerrs,
                                         1, "b1", "u1", "c1")} :
           \A i \in 1..Len(recs) :
             (recs[i].conversation_id # NoId /\ rerrs[i] = "conversation")
               => /\ Len(after.recipients) = Len(recipients)
                     \/ after.recipients[Len(after.recipients)].elevenlabs_recipient_id
                          # recs[i].id
                  /\ \A j \in 1..Len(recipients) :
                       recipients[j].elevenlabs_recipient_id = recs[i].id
                         => after.recipients[j] = recipients[j]
                  /\ after.conversations[recs[i].conversation_id]
                       = conversations[recs[i].conversation_id]

\* the poller stored the recipient before its call, a delivery of the call's
\* event failed at the conversation upsert, and a later delivery linked the row
C35_Witness ==
  /\ hist.dbError
  /\ \E j \in 1..Len(recipients) :
       /\ recipients[j].elevenlabs_recipient_id = <<"b1", 1>>
       /\ recipients[j].elevenlabs_conversation_id = <<"b1", 1>>
       /\ recipients[j].status = "done"
  /\ conversations[<<"b1", 1>>] # NoRow

(***************************************************************************)
(* SpecPollResult: one poll request for batch b1 up to its whole budget,   *)
(* with fetch failures and every kind of provider answer, among them       *)
(* statuses that are completed in another spelling.                        *)
(***************************************************************************)
ResultStatuses == BudgetStatuses \cup {"Completed", "success"}

NextPollResult ==
  \/ PollStart("p1", "b1", "u1")
  \/ PollFetchError("p1")
  \/ \E st \in ResultStatuses :
       PollIteration("p1", BatchData("b1", st, <<>>), {}, <<>>)
  \/ Refund("p1")
  \/ PollExit("p1")

SpecPollResult == Init /\ [][NextPollResult]_vars

\* C36: pollCount is at most maxPolls, and the request's isCompleted (the
\* `completed` of its response) is true exactly when an iteration was
\* answered the status 'completed' (the batch row holds the status of the
\* last answer, and no answer follows that one): it is false after a failed
\* or cancelled batch and after the budget was used up.
C36_ResultMatchesObservation ==
  /\ poll["p1"].pollCount <= maxPolls
  /\ poll["p1"].isCompleted <=> (poll["p1"].pc # "idle"
                                  /\ batch_calls["b1"].status = "completed")
  /\ poll["p1"].pc = "done" =>
       /\ PollResponse(poll["p1"]).pollCount <= maxPolls
       /\ PollResponse(poll["p1"]).completed
            <=> batch_calls["b1"].status = "completed"
       /\ poll["p1"].isFailedCampaign => ~PollResponse(poll["p1"]).completed
       /\ batch_calls["b1"].status # "completed"
            => (poll["p1"].isFailedCampaign \/ poll["p1"].pollCount = maxPolls)

\* the last iteration of the budget was answered 'completed': the response
\* reports completed with pollCount = maxPolls
C36_Witness ==
  /\ poll["p1"].pc = "done"
  /\ PollResponse(poll["p1"]) =
       [success |-> TRUE, completed |-> TRUE, pollCount |-> maxPolls]
  /\ hist.fetches["p1"] = maxPolls

(***************************************************************************)
(* SpecLaunch: launch-campaign requests for campaigns of every status,     *)
(* with and without the API key, accepted and rejected by the provider.    *)
(***************************************************************************)
LaunchTimes == {1, 2}
ApiKeys == {NULL, "key"}

NextLaunch ==
  \E campaignId \in Campaigns, now \in LaunchTimes, elevenlabsApiKey \in ApiKeys,
     ok \in BOOLEAN, err \in BOOLEAN :
    LaunchServe(campaignId, now, elevenlabsApiKey, ok, err)

SpecLaunch == InitCleanup /\ [][NextLaunch]_vars

\* C37: a launch-campaign request changes a campaign only after the provider
\* accepted the submission, and then to Launched with the time of the
\* request; a request without the API key or rejected by the provider
\* leaves every campaign's status and launched_at as they were and is
\* answered with an error (500).
C37_LaunchAfterAcceptance ==
  [][\A campaignId \in Campaigns, now \in LaunchTimes, elevenlabsApiKey \in ApiKeys,
        ok \in BOOLEAN, err \in BOOLEAN :
       LaunchServe(campaignId, now, elevenlabsApiKey, ok, err)
       => /\ (elevenlabsApiKey = NULL \/ ~ok)
               => (campaigns' = campaigns /\ hist'.response = 500)
          /\ (elevenlabsApiKey # NULL /\ ok)
               => /\ hist'.response = 200
                  /\ \A c \in Campaigns \ {campaignId} : campaigns'[c] = campaigns[c]
                  /\ \/ campaigns' = campaigns
                     \/ /\ campaigns'[campaignId].status = "Launched"
                        /\ campaigns'[campaignId].launched_at = Num(now)
                  /\ ~err => /\ campaigns'[campaignId].status = "Launched"
                              /\ campaigns'[campaignId].launched_at = Num(now)]_vars

\* a Draft campaign was launched at time 2 after a request for it was
\* rejected: c1 is Launched, and the last request, for c2, was answered 500
\* and left c2 a Draft
C37_Witness ==
  /\ campaigns["c1"] = [status |-> "Launched", user_id |-> "u1", launched_at |-> Num(2)]
  /\ campaigns["c2"] = [status |-> "Draft", user_id |-> "u1", launched_at |-> NoNumber]
  /\ hist.response = 500

\* C38: the settlement goes on only from exactly one deduction row for
\* (batchId, userId): with more than one the lookup counts as failed and
\* handleMinutesRefund returns, the balance and the ledger as they were, and
\* nothing is credited for the batch afterwards either; with exactly one and
\* no error it takes the row's minutes as the original amount.
C38_SeveralDeductionsSkip ==
  [][/\ (/\ poll["p1"].pc = "refund_deduction"
         /\ Cardinality(LedgerRows("b1", "u1", "deduction")) > 1
         /\ poll' # poll)
        => /\ tables' = tables
           /\ hist'.returned["b1"] = hist.returned["b1"] + 1
           /\ ~InRefund(poll'["p1"])
           /\ poll'["p1"].originalMinutes = 0 /\ poll'["p1"].refundMinutes = 0
     /\ Cardinality(LedgerRows("b1", "u1", "deduction")) > 1
        => /\ profiles' = profiles
           /\ minutes_transactions' = minutes_transactions
           /\ hist'.credited = 0
     /\ (/\ poll["p1"].pc = "refund_deduction"
         /\ InRefund(poll'["p1"]) /\ poll' # poll)
        => /\ Cardinality(LedgerRows("b1", "u1", "deduction")) = 1
           /\ poll'["p1"].originalMinutes = Deducted("b1", "u1")]_vars

\* the request ended after a failed batch that was charged twice: the
\* settlement returned, no refund row, the balance as before
C38_Witness ==
  /\ poll["p1"].pc = "done" /\ poll["p1"].isFailedCampaign
  /\ hist.returned["b1"] = 1
  /\ Cardinality(LedgerRows("b1", "u1", "deduction")) = 2
  /\ Len(minutes_transactions) = 2
  /\ profiles["u1"] = Num(InitialMinutes)
====
